---------------------------- MODULE Spec2Model ----------------------------
(***************************************************************************)
(* Model of the network policy controller of kube-router                   *)
(* (pkg/controllers/netpol/network_policy_controller.go).                  *)
(*                                                                         *)
(* The kernel state (filter table chains and ipsets), the informer caches, *)
(* the controller's fields and the position of every goroutine that can    *)
(* call Sync are the state.  A reconcile (Sync) is a sequence of phases:   *)
(* every phase is one action that performs all the driver calls of that    *)
(* part of the code, with at most one injected driver failure per phase    *)
(* chosen nondeterministically (so a reconcile can abort after any driver  *)
(* call).                                                                  *)
(***************************************************************************)
EXTENDS Integers, Sequences, FiniteSets, TLC

(***************************************************************************)
(* Bounds of the model.                                                    *)
(***************************************************************************)
MaxEpoch == 2       \* reconciles that return in one behaviour
MaxFaults == 1      \* injected driver failures in one behaviour
MaxChanges == 1     \* changes of the informer caches in one behaviour
MaxFaultPos == 6    \* the injected failure is among the first driver calls of a part

(***************************************************************************)
(* Program constants.                                                      *)
(***************************************************************************)
kubePodFirewallChainPrefix == "KUBE-POD-FW-"
kubeNetworkPolicyChainPrefix == "KUBE-NWPLCY-"
kubeSourceIpSetPrefix == "KUBE-SRC-"
kubeDestinationIpSetPrefix == "KUBE-DST-"

TypeHashIP == "hash:ip"
TypeHashNet == "hash:net"
OptionTimeout == "timeout"
OptionNoMatch == "nomatch"

(***************************************************************************)
(* Generic helpers.                                                        *)
(***************************************************************************)
Range(s) == {s[i] : i \in DOMAIN s}

RECURSIVE SetToSeq(_)
SetToSeq(S) == IF S = {} THEN <<>>
               ELSE LET x == CHOOSE y \in S : TRUE IN <<x>> \o SetToSeq(S \ {x})

\* all the orders in which the elements of a (small) set can be listed
Perms(S) == {s \in [1..Cardinality(S) -> S] : Range(s) = S}

RECURSIVE Flatten(_)
Flatten(ss) == IF ss = <<>> THEN <<>> ELSE Head(ss) \o Flatten(Tail(ss))

\* an optional value is a sequence of length 0 (nil) or 1
Nil == <<>>
Some(x) == <<x>>

(***************************************************************************)
(* The cluster objects the informers deliver.                              *)
(***************************************************************************)
NodeIP == "192.168.0.1"
OtherNodeIP == "192.168.0.2"

AllLabels == {"web", "db"}

\* api.Pod: the fields the controller reads
Pod(ns, name, label, podIP, hostIP, ports) ==
    [namespace |-> ns, name |-> name, label |-> label,
     podIP |-> podIP, hostIP |-> hostIP, ports |-> ports]

\* the pods of the cluster; each may be absent, pending (no address yet),
\* running on this node, running on another node, or running on this node
\* with its label changed to the other one
PodIds == {"a", "b", "c"}
PodStatus == {"absent", "pending", "local", "remote", "relabelled"}

PodObject(id, status) ==
    LET ip == IF status = "pending" THEN ""
              ELSE CASE id = "a" -> "10.0.0.1"
                     [] id = "b" -> "10.0.0.2"
                     [] id = "c" -> "10.0.0.3"
        host == IF status = "remote" THEN OtherNodeIP ELSE NodeIP
        web == IF status = "relabelled" THEN "db" ELSE "web"
        db == IF status = "relabelled" THEN "web" ELSE "db"
    IN CASE id = "a" -> Pod("ns1", "web", web, ip, host,
                            {[name |-> "http", protocol |-> "TCP", containerPort |-> 8080]})
         [] id = "b" -> Pod("ns1", "db", db, ip, host,
                            {[name |-> "http", protocol |-> "TCP", containerPort |-> 8081]})
         [] id = "c" -> Pod("ns2", "web", web, ip, host, {})

\* api.Namespace objects (name and label)
Namespaces == {[name |-> "ns1", label |-> "prod"], [name |-> "ns2", label |-> "ext"]}


(***************************************************************************)
(* networking.NetworkPolicy objects.  A label selector is the set of label *)
(* values it matches; an optional field is Nil or Some(x).                 *)
(***************************************************************************)
Everything == AllLabels

PolicyPeer(podSelector, namespaceSelector, ipBlock) ==
    [podSelector |-> podSelector, namespaceSelector |-> namespaceSelector,
     ipBlock |-> ipBlock]

PolicyPort(protocol, port) == [protocol |-> protocol, port |-> port]
IntPort(n) == Some([type |-> "int", val |-> n])
NamedPort(n) == Some([type |-> "string", val |-> n])

\* a rule of Spec.Ingress (peers = From) or Spec.Egress (peers = To)
PolicyRule(peers, ports) == [peers |-> peers, ports |-> ports]

NetworkPolicy(ns, name, podSelector, policyTypes, ingress, egress) ==
    [namespace |-> ns, name |-> name, podSelector |-> podSelector,
     policyTypes |-> policyTypes, ingress |-> ingress, egress |-> egress]

\* deny all ingress to the db pods
PolicyDeny == NetworkPolicy("ns1", "deny", {"db"}, {"Ingress"}, <<>>, <<>>)

\* allow all egress from the web pods
PolicyEgress ==
    NetworkPolicy("ns1", "egress", {"web"}, {"Egress"}, <<>>,
                  <<PolicyRule(<<>>, <<>>)>>)

\* allow ingress to every pod of ns1 from the web pods on tcp/80
PolicyAllow ==
    NetworkPolicy("ns1", "allow", Everything, {},
                  <<PolicyRule(<<PolicyPeer(Some({"web"}), Nil, Nil)>>,
                               <<PolicyPort("TCP", IntPort("80"))>>)>>,
                  <<>>)

PolicyCatalogue == {PolicyDeny, PolicyEgress, PolicyAllow}

(***************************************************************************)
(* The internal model: networkPolicyInfo, podInfo, ingressRule, egressRule *)
(***************************************************************************)
podInfo(pod) == [ip |-> pod.podIP, name |-> pod.name, namespace |-> pod.namespace]

\* ListPodsByNamespaceAndLabels: the pods of the cache in a namespace that
\* a selector matches
ListPodsByNamespaceAndLabels(pods, namespace, podSelector) ==
    {p \in pods : p.namespace = namespace /\ p.label \in podSelector}

\* ListNamespaceByLabels
ListNamespaceByLabels(namespaceSelector) ==
    {n \in Namespaces : n.label \in namespaceSelector}

evalPodPeer(pods, policy, peer) ==
    IF peer.namespaceSelector # Nil
    THEN LET podSelector == IF peer.podSelector # Nil THEN peer.podSelector[1]
                            ELSE Everything
         IN UNION {ListPodsByNamespaceAndLabels(pods, n.name, podSelector) :
                       n \in ListNamespaceByLabels(peer.namespaceSelector[1])}
    ELSE IF peer.podSelector # Nil
    THEN ListPodsByNamespaceAndLabels(pods, policy.namespace, peer.podSelector[1])
    ELSE {}

\* strings.HasSuffix(cidr, "/0"): the blocks of the model whose text ends
\* in /0
EndsInSlash0 == {"0.0.0.0/0", "10.0.0.0/0"}
HasSuffixSlash0(cidr) == cidr \in EndsInSlash0

\* except blocks entered as blocks of the set
exceptEntriesAsBlocks(except) == [k \in DOMAIN except |-> <<except[k], OptionTimeout, "0">>]

RECURSIVE exceptEntries(_)
exceptEntries(except) ==
    IF except = <<>> THEN <<>>
    ELSE (IF HasSuffixSlash0(Head(except))
          THEN << <<"0.0.0.0/1", OptionTimeout, "0", OptionNoMatch>>,
                  <<"128.0.0.0/1", OptionTimeout, "0", OptionNoMatch>> >>
          ELSE << <<Head(except), OptionTimeout, "0", OptionNoMatch>> >>)
         \o exceptEntries(Tail(except))

evalIPBlockPeer(peer) ==
    IF peer.podSelector = Nil /\ peer.namespaceSelector = Nil /\ peer.ipBlock # Nil
    THEN (IF HasSuffixSlash0(peer.ipBlock[1].cidr)
          THEN << <<"0.0.0.0/1", OptionTimeout, "0">>,
                  <<"128.0.0.0/1", OptionTimeout, "0">> >>
          ELSE << <<peer.ipBlock[1].cidr, OptionTimeout, "0">> >>)
         \o exceptEntries(peer.ipBlock[1].except)
    ELSE <<>>

\* a table that keeps one list of addresses per port name
grabNamedPortFromPodByName(pods) ==
    {[name |-> pt.name, protocol |-> pt.protocol, port |-> ToString(pt.containerPort),
      ips |-> {q.podIP : q \in {r \in pods : \E x \in r.ports : x.name = pt.name}}] :
        pt \in UNION {p.ports : p \in pods}}

\* grabNamedPortFromPod over a set of pods: the table name -> protocol ->
\* numeric port -> endPoints, as the set of its endPoints records
grabNamedPortFromPod(pods) ==
    {[name |-> pt.name, protocol |-> pt.protocol, port |-> ToString(pt.containerPort),
      ips |-> {q.podIP : q \in {r \in pods : pt \in r.ports}}] :
        pt \in UNION {p.ports : p \in pods}}

RECURSIVE numericPortsOf(_)
numericPortsOf(npPorts) ==
    IF npPorts = <<>> THEN <<>>
    ELSE LET npPort == Head(npPorts)
         IN (IF npPort.port = Nil
             THEN <<[protocol |-> npPort.protocol, port |-> ""]>>
             ELSE IF npPort.port[1].type = "int"
             THEN <<[protocol |-> npPort.protocol, port |-> npPort.port[1].val]>>
             ELSE <<>>)
            \o numericPortsOf(Tail(npPorts))

RECURSIVE namedPortsOf(_, _)
namedPortsOf(npPorts, namedPort2eps) ==
    IF npPorts = <<>> THEN <<>>
    ELSE LET npPort == Head(npPorts)
         IN (IF npPort.port # Nil /\ npPort.port[1].type = "string"
             THEN SetToSeq({[ips |-> e.ips, protocol |-> e.protocol, port |-> e.port] :
                              e \in {x \in namedPort2eps :
                                        /\ x.name = npPort.port[1].val
                                        /\ x.protocol = npPort.protocol}})
             ELSE <<>>)
            \o namedPortsOf(Tail(npPorts), namedPort2eps)

\* processNetworkPolicyPorts: (numericPorts, namedPorts)
processNetworkPolicyPorts(npPorts, namedPort2eps) ==
    [numericPorts |-> numericPortsOf(npPorts),
     namedPorts |-> namedPortsOf(npPorts, namedPort2eps)]

\* the peers of a rule with an address, over all its peers
peerPodsOf(pods, policy, peers) ==
    {p \in UNION {evalPodPeer(pods, policy, peers[i]) : i \in DOMAIN peers} :
        p.podIP # ""}

ipBlocksOf(peers) == Flatten([i \in DOMAIN peers |-> evalIPBlockPeer(peers[i])])

\* the ingress rule as it would be if peers that resolve to nothing meant
\* every source
buildIngressRuleOpenWhenUnresolved(pods, policy, specIngressRule, namedPort2IngressEps) ==
    LET pp == processNetworkPolicyPorts(specIngressRule.ports, namedPort2IngressEps)
        all == Len(specIngressRule.ports) = 0
        srcPods == {podInfo(p) : p \in peerPodsOf(pods, policy, specIngressRule.peers)}
    IN [matchAllSource |-> srcPods = {} /\ ipBlocksOf(specIngressRule.peers) = <<>>,
        srcPods |-> srcPods,
        srcIPBlocks |-> ipBlocksOf(specIngressRule.peers),
        matchAllPorts |-> all,
        ports |-> IF all THEN <<>> ELSE pp.numericPorts,
        namedPorts |-> IF all THEN <<>> ELSE pp.namedPorts]

buildIngressRule(pods, policy, specIngressRule, namedPort2IngressEps) ==
    LET pp == processNetworkPolicyPorts(specIngressRule.ports, namedPort2IngressEps)
        all == Len(specIngressRule.ports) = 0
    IN [matchAllSource |-> Len(specIngressRule.peers) = 0,
        srcPods |-> {podInfo(p) : p \in peerPodsOf(pods, policy, specIngressRule.peers)},
        srcIPBlocks |-> ipBlocksOf(specIngressRule.peers),
        matchAllPorts |-> all,
        ports |-> IF all THEN <<>> ELSE pp.numericPorts,
        namedPorts |-> IF all THEN <<>> ELSE pp.namedPorts]

buildEgressRule(pods, policy, specEgressRule) ==
    LET dst == peerPodsOf(pods, policy, specEgressRule.peers)
        pp == processNetworkPolicyPorts(specEgressRule.ports, grabNamedPortFromPod(dst))
        all == Len(specEgressRule.ports) = 0
    IN [matchAllDestinations |-> Len(specEgressRule.peers) = 0,
        dstPods |-> {podInfo(p) : p \in dst},
        dstIPBlocks |-> ipBlocksOf(specEgressRule.peers),
        matchAllPorts |-> all,
        ports |-> IF all THEN <<>> ELSE pp.numericPorts,
        namedPorts |-> IF all THEN <<>> ELSE pp.namedPorts]

\* the policyType of a policy object
policyTypeOf(policy) ==
    IF "Ingress" \in policy.policyTypes /\ "Egress" \in policy.policyTypes THEN "both"
    ELSE IF "Egress" \in policy.policyTypes THEN "egress"
    ELSE "ingress"

\* one iteration of the loop of buildNetworkPoliciesInfo; listErr says
\* that ListPodsByNamespaceAndLabels returned an error for the policy, which
\* leaves targetPods the empty map it was made as
newPolicy(pods, policy, listErr) ==
    LET matchingPods == IF listErr THEN {}
                        ELSE {p \in ListPodsByNamespaceAndLabels(pods, policy.namespace,
                                                                policy.podSelector) :
                                p.podIP # ""}
        namedPort2IngressEps == grabNamedPortFromPod(matchingPods)
    IN [name |-> policy.name,
        namespace |-> policy.namespace,
        policyType |-> policyTypeOf(policy),
        targetPods |-> [ip \in {p.podIP : p \in matchingPods} |->
                          podInfo(CHOOSE p \in matchingPods : p.podIP = ip)],
        ingressRules |-> [i \in DOMAIN policy.ingress |->
                            buildIngressRule(pods, policy, policy.ingress[i],
                                             namedPort2IngressEps)],
        egressRules |-> [i \in DOMAIN policy.egress |->
                           buildEgressRule(pods, policy, policy.egress[i])]]

\* one iteration of the loop of buildBetaNetworkPoliciesInfo: policyType
\* is left empty, a peer is a pod selector in the namespace of the policy
\* (nil: labels.Nothing), there are no blocks and no egress rules
newBetaPolicy(pods, policy, listErr) ==
    LET matchingPods == IF listErr THEN {}
                        ELSE {p \in ListPodsByNamespaceAndLabels(pods, policy.namespace,
                                                                policy.podSelector) :
                                p.podIP # ""}
        namedPort2IngressEps == grabNamedPortFromPod(matchingPods)
        srcPodsOf(peers) ==
            {p \in UNION {ListPodsByNamespaceAndLabels(
                              pods, policy.namespace,
                              IF peers[i].podSelector = Nil THEN {}
                              ELSE peers[i].podSelector[1]) : i \in DOMAIN peers} :
                p.podIP # ""}
    IN [name |-> policy.name,
        namespace |-> policy.namespace,
        policyType |-> "",
        targetPods |-> [ip \in {p.podIP : p \in matchingPods} |->
                          podInfo(CHOOSE p \in matchingPods : p.podIP = ip)],
        ingressRules |->
            [i \in DOMAIN policy.ingress |->
                LET pp == processNetworkPolicyPorts(policy.ingress[i].ports,
                                                    namedPort2IngressEps)
                IN [matchAllSource |-> FALSE,
                    srcPods |-> {podInfo(p) : p \in srcPodsOf(policy.ingress[i].peers)},
                    srcIPBlocks |-> <<>>,
                    matchAllPorts |-> FALSE,
                    ports |-> pp.numericPorts,
                    namedPorts |-> pp.namedPorts]],
        egressRules |-> <<>>]

\* buildBetaNetworkPoliciesInfo
buildBetaNetworkPoliciesInfo(pods, policyList, failAt) ==
    [i \in DOMAIN policyList |-> newBetaPolicy(pods, policyList[i], i = failAt)]

\* buildNetworkPoliciesInfo, for the policies in the order npLister.List()
\* returned them; failAt is the policy whose lookup of pods fails (0: none)
buildNetworkPoliciesInfo(pods, policyList, failAt) ==
    [i \in DOMAIN policyList |-> newPolicy(pods, policyList[i], i = failAt)]

(***************************************************************************)
(* Names of chains and ipsets.  A name is the pair of its prefix and the   *)
(* hash of the concatenated arguments; sha256 with the base32 encoding cut *)
(* to 16 characters is taken to be injective, so the hash stands for the   *)
(* bytes it was computed from.                                             *)
(***************************************************************************)
Hash(bytes) == bytes
Itoa(n) == ToString(n)

podFirewallChainName(namespace, podName, version) ==
    <<kubePodFirewallChainPrefix, Hash(namespace \o podName \o version)>>

networkPolicyChainName(namespace, policyName, version) ==
    <<kubeNetworkPolicyChainPrefix, Hash(namespace \o policyName \o version)>>

policySourcePodIpSetName(namespace, policyName) ==
    <<kubeSourceIpSetPrefix, Hash(namespace \o policyName)>>

policyDestinationPodIpSetName(namespace, policyName) ==
    <<kubeDestinationIpSetPrefix, Hash(namespace \o policyName)>>

policyIndexedSourcePodIpSetName(namespace, policyName, ingressRuleNo) ==
    <<kubeSourceIpSetPrefix,
      Hash(namespace \o policyName \o "ingressrule" \o Itoa(ingressRuleNo) \o "pod")>>

policyIndexedDestinationPodIpSetName(namespace, policyName, egressRuleNo) ==
    <<kubeDestinationIpSetPrefix,
      Hash(namespace \o policyName \o "egressrule" \o Itoa(egressRuleNo) \o "pod")>>

policyIndexedSourceIpBlockIpSetName(namespace, policyName, ingressRuleNo) ==
    <<kubeSourceIpSetPrefix,
      Hash(namespace \o policyName \o "ingressrule" \o Itoa(ingressRuleNo) \o "ipblock")>>

policyIndexedDestinationIpBlockIpSetName(namespace, policyName, egressRuleNo) ==
    <<kubeDestinationIpSetPrefix,
      Hash(namespace \o policyName \o "egressrule" \o Itoa(egressRuleNo) \o "ipblock")>>

policyIndexedIngressNamedPortIpSetName(namespace, policyName, ingressRuleNo, namedPortNo) ==
    <<kubeDestinationIpSetPrefix,
      Hash(namespace \o policyName \o "ingressrule" \o Itoa(ingressRuleNo)
           \o Itoa(namedPortNo) \o "namedport")>>

policyIndexedEgressNamedPortIpSetName(namespace, policyName, egressRuleNo, namedPortNo) ==
    <<kubeDestinationIpSetPrefix,
      Hash(namespace \o policyName \o "egressrule" \o Itoa(egressRuleNo)
           \o Itoa(namedPortNo) \o "namedport")>>

\* strings.HasPrefix(name, prefix) for a chain or set name
HasPrefix(name, prefix) == name[1] = prefix

(***************************************************************************)
(* The filter table and the ipsets of the kernel.                          *)
(***************************************************************************)
BuiltinChain(name) == <<"", name>>
FORWARD == BuiltinChain("FORWARD")
OUTPUT == BuiltinChain("OUTPUT")
INPUT == BuiltinChain("INPUT")
ACCEPT == BuiltinChain("ACCEPT")
REJECT == BuiltinChain("REJECT")
NFLOG == BuiltinChain("NFLOG")
BuiltinChains == {FORWARD, OUTPUT, INPUT}
Targets == {ACCEPT, REJECT, NFLOG}
NoSet == <<"", "">>

\* a rule spec: the comment (its text and the chain name that ends it, if
\* one does), the matches (an empty string or FALSE: no such match) and the
\* target
RuleSpec(comment, physdev, srcType, ctstate, s, d, srcSet, dstSet, proto, dport, j) ==
    [comment |-> comment, commentChain |-> NoSet, physdev |-> physdev, srcType |-> srcType,
     ctstate |-> ctstate, s |-> s, d |-> d, srcSet |-> srcSet, dstSet |-> dstSet,
     proto |-> proto, dport |-> dport, j |-> j]

\* a rule of another owner that the node has in FORWARD
ForeignRule ==
    RuleSpec("docker isolation", FALSE, "", "", "", "172.17.0.0/16", NoSet, NoSet,
             "", "", REJECT)

\* the filter table before the controller ever ran, and no ipset
EmptyChains == [c \in BuiltinChains |-> IF c = FORWARD THEN <<ForeignRule>> ELSE <<>>]
EmptyIpSets == [n \in {} |-> [type |-> TypeHashIP, entries |-> {}]]

\* strings.Contains(rule, chain): the text of a rule names a chain when the
\* rule jumps to it or its comment ends with it
RuleContains(rule, chain) == rule.j = chain \/ rule.commentChain = chain

\* what a rule refers to must exist for the kernel to accept the rule
RuleAccepted(chains, ipsets, rule) ==
    /\ rule.j \in Targets \/ rule.j \in DOMAIN chains
    /\ rule.srcSet = NoSet \/ rule.srcSet \in DOMAIN ipsets
    /\ rule.dstSet = NoSet \/ rule.dstSet \in DOMAIN ipsets

ChainReferenced(chains, chain) ==
    \E c \in DOMAIN chains : \E i \in DOMAIN chains[c] : chains[c][i].j = chain

SetReferenced(chains, set) ==
    \E c \in DOMAIN chains : \E i \in DOMAIN chains[c] :
        chains[c][i].srcSet = set \/ chains[c][i].dstSet = set

RemoveAt(seq, pos) == SubSeq(seq, 1, pos - 1) \o SubSeq(seq, pos + 1, Len(seq))

(***************************************************************************)
(* Driver calls.  A call is a record; Apply gives the kernel after the     *)
(* call and whether the call succeeded.  onErr says what the calling code  *)
(* does with an error of this call: "abort" (return the error), "log"      *)
(* (log or ignore it and go on) or "fatal" (glog.Fatalf: the process       *)
(* exits).                                                                 *)
(***************************************************************************)
Call(op, chain, rule, pos, set, type, entries, onErr) ==
    [op |-> op, chain |-> chain, rule |-> rule, pos |-> pos, set |-> set,
     type |-> type, entries |-> entries, onErr |-> onErr]

NoRule == RuleSpec("", FALSE, "", "", "", "", NoSet, NoSet, "", "", ACCEPT)

NewChainErrorLogged(chain) == Call("NewChain", chain, NoRule, 0, NoSet, "", {}, "log")
\* iptables.NewChain; the caller treats exit status 1 (chain exists) as success
NewChain(chain) == Call("NewChain", chain, NoRule, 0, NoSet, "", {}, "abort")
\* iptables.AppendUnique
AppendUnique(chain, rule) == Call("AppendUnique", chain, rule, 0, NoSet, "", {}, "abort")
\* iptables.Exists followed, when the rule is absent, by iptables.Insert at 1
EnsureRule(chain, rule) == Call("EnsureRule", chain, rule, 1, NoSet, "", {}, "abort")
\* iptables.Delete by rule number
DeleteRule(chain, pos) == Call("Delete", chain, NoRule, pos, NoSet, "", {}, "abort")
\* iptables.ClearChain, iptables.DeleteChain
ClearChain(chain) == Call("ClearChain", chain, NoRule, 0, NoSet, "", {}, "abort")
DeleteChain(chain) == Call("DeleteChain", chain, NoRule, 0, NoSet, "", {}, "abort")
\* IPSet.Create, Set.Refresh (and RefreshWithBuiltinOptions), Set.Destroy
CreateSet(set, type) == Call("Create", NoSet, NoRule, 0, set, type, {}, "abort")
RefreshSetErrorReturned(set, entries) == Call("Refresh", NoSet, NoRule, 0, set, "", entries, "abort")
RefreshSet(set, entries) == Call("Refresh", NoSet, NoRule, 0, set, "", entries, "log")
DestroySet(set) == Call("Destroy", NoSet, NoRule, 0, set, "", {}, "abort")
\* IPSet.Save: reads the sets of the kernel
SaveSets == Call("Save", NoSet, NoRule, 0, NoSet, "", {}, "fatal")
\* iptables.ListChains, whose error cleanupStaleRules does not look at
ListChains == Call("ListChains", NoSet, NoRule, 0, NoSet, "", {}, "log")
\* iptables.List of the rules of a chain
ListRules(chain, onErr) == Call("List", chain, NoRule, 0, NoSet, "", {}, onErr)

Applied(chains, ipsets, ok) == [chains |-> chains, ipsets |-> ipsets, ok |-> ok]

Apply(chains, ipsets, c) ==
    CASE c.op = "NewChain" ->
           IF c.chain \in DOMAIN chains THEN Applied(chains, ipsets, TRUE)
           ELSE Applied([x \in DOMAIN chains \cup {c.chain} |->
                            IF x = c.chain THEN <<>> ELSE chains[x]], ipsets, TRUE)
      [] c.op = "AppendUnique" ->
           IF c.chain \notin DOMAIN chains \/ ~RuleAccepted(chains, ipsets, c.rule)
           THEN Applied(chains, ipsets, FALSE)
           ELSE IF c.rule \in Range(chains[c.chain]) THEN Applied(chains, ipsets, TRUE)
           ELSE Applied([chains EXCEPT ![c.chain] = Append(@, c.rule)], ipsets, TRUE)
      [] c.op = "EnsureRule" ->
           IF c.chain \notin DOMAIN chains \/ ~RuleAccepted(chains, ipsets, c.rule)
           THEN Applied(chains, ipsets, FALSE)
           ELSE IF c.rule \in Range(chains[c.chain]) THEN Applied(chains, ipsets, TRUE)
           ELSE Applied([chains EXCEPT ![c.chain] = <<c.rule>> \o @], ipsets, TRUE)
      [] c.op = "Delete" ->
           IF c.chain \notin DOMAIN chains \/ c.pos < 1 \/ c.pos > Len(chains[c.chain])
           THEN Applied(chains, ipsets, FALSE)
           ELSE Applied([chains EXCEPT ![c.chain] = RemoveAt(@, c.pos)], ipsets, TRUE)
      [] c.op = "ClearChain" ->
           IF c.chain \in DOMAIN chains
           THEN Applied([chains EXCEPT ![c.chain] = <<>>], ipsets, TRUE)
           ELSE Applied([x \in DOMAIN chains \cup {c.chain} |->
                            IF x = c.chain THEN <<>> ELSE chains[x]], ipsets, TRUE)
      [] c.op = "DeleteChain" ->
           IF \/ c.chain \notin DOMAIN chains
              \/ chains[c.chain] # <<>>
              \/ ChainReferenced(chains, c.chain)
           THEN Applied(chains, ipsets, FALSE)
           ELSE Applied([x \in DOMAIN chains \ {c.chain} |-> chains[x]], ipsets, TRUE)
      [] c.op = "Create" ->
           IF c.set \in DOMAIN ipsets THEN Applied(chains, ipsets, TRUE)
           ELSE Applied(chains, [x \in DOMAIN ipsets \cup {c.set} |->
                                   IF x = c.set THEN [type |-> c.type, entries |-> {}]
                                   ELSE ipsets[x]], TRUE)
      [] c.op = "Refresh" ->
           IF c.set \notin DOMAIN ipsets THEN Applied(chains, ipsets, FALSE)
           ELSE Applied(chains, [ipsets EXCEPT ![c.set].entries = c.entries], TRUE)
      [] c.op = "Destroy" ->
           IF c.set \notin DOMAIN ipsets \/ SetReferenced(chains, c.set)
           THEN Applied(chains, ipsets, FALSE)
           ELSE Applied(chains, [x \in DOMAIN ipsets \ {c.set} |-> ipsets[x]], TRUE)
      [] c.op \in {"Save", "ListChains"} -> Applied(chains, ipsets, TRUE)
      [] c.op = "List" -> Applied(chains, ipsets, c.chain \in DOMAIN chains)

(***************************************************************************)
(* The run of a part of a reconcile over the kernel: m.fail counts down to *)
(* the driver call that fails by injection (0: none), m.hit says that it   *)
(* did, m.err that the code stopped on an error, m.fatal that it stopped   *)
(* the process, m.failed which operations of the driver returned an error. *)
(***************************************************************************)
Machine(chains, ipsets, fail) ==
    [chains |-> chains, ipsets |-> ipsets, fail |-> fail, err |-> FALSE, hit |-> FALSE,
     fatal |-> FALSE, failed |-> {}]

Exec(m, c) ==
    IF m.err THEN m
    ELSE IF m.fail = 1
    THEN [m EXCEPT !.fail = 0, !.hit = TRUE, !.err = (c.onErr # "log"),
                   !.fatal = (c.onErr = "fatal"), !.failed = @ \cup {c.op}]
    ELSE LET r == Apply(m.chains, m.ipsets, c)
         IN [chains |-> r.chains, ipsets |-> r.ipsets,
             fail |-> IF m.fail > 1 THEN m.fail - 1 ELSE 0,
             err |-> (~r.ok /\ c.onErr # "log"),
             hit |-> m.hit,
             fatal |-> (~r.ok /\ c.onErr = "fatal"),
             failed |-> IF r.ok THEN m.failed ELSE m.failed \cup {c.op}]

RECURSIVE ExecAll(_, _)
ExecAll(m, calls) ==
    IF calls = <<>> \/ m.err THEN m ELSE ExecAll(Exec(m, Head(calls)), Tail(calls))

(***************************************************************************)
(* syncNetworkPolicyChains: the driver calls it makes, in order.           *)
(***************************************************************************)
IpEntries(ips) == {<<ip, OptionTimeout, "0">> : ip \in ips}

\* the rule without its match on the destination set
appendRuleToPolicyChainAnyDestination(policyChainName, comment, srcIpSetName, dstIpSetName, protocol, dPort) ==
    AppendUnique(policyChainName,
                 RuleSpec(comment, FALSE, "", "", "", "", srcIpSetName, NoSet,
                          protocol, dPort, ACCEPT))

\* appendRuleToPolicyChain
appendRuleToPolicyChain(policyChainName, comment, srcIpSetName, dstIpSetName, protocol, dPort) ==
    AppendUnique(policyChainName,
                 RuleSpec(comment, FALSE, "", "", "", "", srcIpSetName, dstIpSetName,
                          protocol, dPort, ACCEPT))

\* one rule for the ports of a rule taken together: the protocol of each
\* with no port
portRulesByProtocol(policyChainName, comment, srcIpSetName, dstIpSetName, ports) ==
    [k \in DOMAIN ports |->
        appendRuleToPolicyChain(policyChainName, comment, srcIpSetName, dstIpSetName,
                                ports[k].protocol, "")]

\* one rule per numeric port of a rule
portRules(policyChainName, comment, srcIpSetName, dstIpSetName, ports) ==
    [k \in DOMAIN ports |->
        appendRuleToPolicyChain(policyChainName, comment, srcIpSetName, dstIpSetName,
                                ports[k].protocol, ports[k].port)]

\* per named port of an ingress rule: its set, refreshed, and one rule
ingressNamedPortRules(policy, policyChainName, comment, srcIpSetName, ruleNo, namedPorts) ==
    Flatten([k \in DOMAIN namedPorts |->
        LET namedPortIpSetName ==
                policyIndexedIngressNamedPortIpSetName(policy.namespace, policy.name,
                                                       ruleNo, k - 1)
        IN <<CreateSet(namedPortIpSetName, TypeHashIP),
             RefreshSet(namedPortIpSetName, IpEntries(namedPorts[k].ips)),
             appendRuleToPolicyChain(policyChainName, comment, srcIpSetName,
                                     namedPortIpSetName, namedPorts[k].protocol,
                                     namedPorts[k].port)>>])

ingressRuleCalls(policy, ruleNo, ingressRule, policyChainName, targetDestPodIpSetName) ==
    LET srcPodIpSetName ==
            policyIndexedSourcePodIpSetName(policy.namespace, policy.name, ruleNo)
        srcIpBlockIpSetName ==
            policyIndexedSourceIpBlockIpSetName(policy.namespace, policy.name, ruleNo)
        fromPods == "rule to ACCEPT traffic from source pods to dest pods selected by policy name "
                    \o policy.name \o " namespace " \o policy.namespace
        fromAll == "rule to ACCEPT traffic from all sources to dest pods selected by policy name: "
                   \o policy.name \o " namespace " \o policy.namespace
        fromBlocks == "rule to ACCEPT traffic from specified ipBlocks to dest pods selected by policy name: "
                      \o policy.name \o " namespace " \o policy.namespace
    IN (IF ingressRule.srcPods # {}
        THEN <<CreateSet(srcPodIpSetName, TypeHashIP),
               RefreshSet(srcPodIpSetName,
                          IpEntries({q.ip : q \in ingressRule.srcPods}))>>
             \o portRules(policyChainName, fromPods, srcPodIpSetName,
                          targetDestPodIpSetName, ingressRule.ports)
             \o ingressNamedPortRules(policy, policyChainName, fromPods, srcPodIpSetName,
                                      ruleNo, ingressRule.namedPorts)
             \o (IF Len(ingressRule.ports) = 0 /\ Len(ingressRule.namedPorts) = 0
                 THEN <<appendRuleToPolicyChain(policyChainName, fromPods, srcPodIpSetName,
                                                targetDestPodIpSetName, "", "")>>
                 ELSE <<>>)
        ELSE <<>>)
       \o (IF ingressRule.matchAllSource /\ ~ingressRule.matchAllPorts
           THEN portRules(policyChainName, fromAll, NoSet, targetDestPodIpSetName,
                          ingressRule.ports)
                \o ingressNamedPortRules(policy, policyChainName, fromAll, NoSet,
                                         ruleNo, ingressRule.namedPorts)
           ELSE <<>>)
       \o (IF ingressRule.matchAllSource /\ ingressRule.matchAllPorts
           THEN <<appendRuleToPolicyChain(policyChainName, fromAll, NoSet,
                                          targetDestPodIpSetName, "", "")>>
           ELSE <<>>)
       \o (IF Len(ingressRule.srcIPBlocks) # 0
           THEN <<CreateSet(srcIpBlockIpSetName, TypeHashNet),
                  RefreshSet(srcIpBlockIpSetName, Range(ingressRule.srcIPBlocks))>>
                \o (IF ~ingressRule.matchAllPorts
                    THEN portRules(policyChainName, fromBlocks, srcIpBlockIpSetName,
                                   targetDestPodIpSetName, ingressRule.ports)
                         \o ingressNamedPortRules(policy, policyChainName, fromBlocks,
                                                  srcIpBlockIpSetName, ruleNo,
                                                  ingressRule.namedPorts)
                    ELSE <<appendRuleToPolicyChain(policyChainName, fromBlocks,
                                                   srcIpBlockIpSetName,
                                                   targetDestPodIpSetName, "", "")>>)
           ELSE <<>>)

processIngressRules(policy, targetDestPodIpSetName, version) ==
    LET policyChainName == networkPolicyChainName(policy.namespace, policy.name, version)
    IN Flatten([i \in DOMAIN policy.ingressRules |->
                   ingressRuleCalls(policy, i - 1, policy.ingressRules[i],
                                    policyChainName, targetDestPodIpSetName)])

egressNamedPortRules(policy, policyChainName, comment, srcIpSetName, ruleNo, namedPorts) ==
    Flatten([k \in DOMAIN namedPorts |->
        LET namedPortIpSetName ==
                policyIndexedEgressNamedPortIpSetName(policy.namespace, policy.name,
                                                      ruleNo, k - 1)
        IN <<CreateSet(namedPortIpSetName, TypeHashIP),
             RefreshSet(namedPortIpSetName, IpEntries(namedPorts[k].ips)),
             appendRuleToPolicyChain(policyChainName, comment, srcIpSetName,
                                     namedPortIpSetName, namedPorts[k].protocol,
                                     namedPorts[k].port)>>])

egressRuleCalls(policy, ruleNo, egressRule, policyChainName, targetSourcePodIpSetName) ==
    LET dstPodIpSetName ==
            policyIndexedDestinationPodIpSetName(policy.namespace, policy.name, ruleNo)
        dstIpBlockIpSetName ==
            policyIndexedDestinationIpBlockIpSetName(policy.namespace, policy.name, ruleNo)
        toPods == "rule to ACCEPT traffic from source pods to dest pods selected by policy name "
                  \o policy.name \o " namespace " \o policy.namespace
        toAll == "rule to ACCEPT traffic from source pods to all destinations selected by policy name: "
                 \o policy.name \o " namespace " \o policy.namespace
        toBlocks == "rule to ACCEPT traffic from source pods to specified ipBlocks selected by policy name: "
                    \o policy.name \o " namespace " \o policy.namespace
    IN (IF egressRule.dstPods # {}
        THEN <<CreateSet(dstPodIpSetName, TypeHashIP),
               RefreshSet(dstPodIpSetName,
                          IpEntries({q.ip : q \in egressRule.dstPods}))>>
             \o portRules(policyChainName, toPods, targetSourcePodIpSetName,
                          dstPodIpSetName, egressRule.ports)
             \o egressNamedPortRules(policy, policyChainName, toPods,
                                     targetSourcePodIpSetName, ruleNo,
                                     egressRule.namedPorts)
             \o (IF Len(egressRule.ports) = 0 /\ Len(egressRule.namedPorts) = 0
                 THEN <<appendRuleToPolicyChain(policyChainName, toPods,
                                                targetSourcePodIpSetName,
                                                dstPodIpSetName, "", "")>>
                 ELSE <<>>)
        ELSE <<>>)
       \o (IF egressRule.matchAllDestinations /\ ~egressRule.matchAllPorts
           THEN portRules(policyChainName, toAll, targetSourcePodIpSetName, NoSet,
                          egressRule.ports)
           ELSE <<>>)
       \o (IF egressRule.matchAllDestinations /\ egressRule.matchAllPorts
           THEN <<appendRuleToPolicyChain(policyChainName, toAll,
                                          targetSourcePodIpSetName, NoSet, "", "")>>
           ELSE <<>>)
       \o (IF Len(egressRule.dstIPBlocks) # 0
           THEN <<CreateSet(dstIpBlockIpSetName, TypeHashNet),
                  RefreshSet(dstIpBlockIpSetName, Range(egressRule.dstIPBlocks))>>
                \o (IF ~egressRule.matchAllPorts
                    THEN portRules(policyChainName, toBlocks, targetSourcePodIpSetName,
                                   dstIpBlockIpSetName, egressRule.ports)
                    ELSE <<appendRuleToPolicyChain(policyChainName, toBlocks,
                                                   targetSourcePodIpSetName,
                                                   dstIpBlockIpSetName, "", "")>>)
           ELSE <<>>)

processEgressRules(policy, targetSourcePodIpSetName, version) ==
    LET policyChainName == networkPolicyChainName(policy.namespace, policy.name, version)
    IN Flatten([i \in DOMAIN policy.egressRules |->
                   egressRuleCalls(policy, i - 1, policy.egressRules[i],
                                   policyChainName, targetSourcePodIpSetName)])

policyChainCallsForTargetedOnly(policy, version) ==
    IF DOMAIN policy.targetPods = {} THEN <<>>
    ELSE <<NewChain(networkPolicyChainName(policy.namespace, policy.name, version))>>
\* the body of the loop of syncNetworkPolicyChains for one policy
policyChainCalls(policy, version) ==
    LET policyChainName == networkPolicyChainName(policy.namespace, policy.name, version)
        currnetPodIps == DOMAIN policy.targetPods
        targetDestPodIpSetName ==
            policyDestinationPodIpSetName(policy.namespace, policy.name)
        targetSourcePodIpSetName ==
            policySourcePodIpSetName(policy.namespace, policy.name)
    IN <<NewChain(policyChainName)>>
       \o (IF policy.policyType = "both" \/ policy.policyType = "ingress"
           THEN <<CreateSet(targetDestPodIpSetName, TypeHashIP),
                  RefreshSet(targetDestPodIpSetName, IpEntries(currnetPodIps))>>
                \o processIngressRules(policy, targetDestPodIpSetName, version)
           ELSE <<>>)
       \o (IF policy.policyType = "both" \/ policy.policyType = "egress"
           THEN <<CreateSet(targetSourcePodIpSetName, TypeHashIP),
                  RefreshSet(targetSourcePodIpSetName, IpEntries(currnetPodIps))>>
                \o processEgressRules(policy, targetSourcePodIpSetName, version)
           ELSE <<>>)

syncNetworkPolicyChains(networkPoliciesInfo, version) ==
    Flatten([i \in DOMAIN networkPoliciesInfo |->
                policyChainCalls(networkPoliciesInfo[i], version)])

\* the maps syncNetworkPolicyChains returns when it returns no error
activePolicyChainsOf(networkPoliciesInfo, version) ==
    {networkPolicyChainName(networkPoliciesInfo[i].namespace,
                            networkPoliciesInfo[i].name, version) :
        i \in DOMAIN networkPoliciesInfo}

activePolicyIpSetsOf(networkPoliciesInfo, version) ==
    LET calls == syncNetworkPolicyChains(networkPoliciesInfo, version)
    IN {calls[i].set : i \in {k \in DOMAIN calls : calls[k].op = "Create"}}

(***************************************************************************)
(* syncPodFirewallChains.                                                  *)
(***************************************************************************)
\* getIngressNetworkPolicyEnabledPods / getEgressNetworkPolicyEnabledPods:
\* the map from address to podInfo of the pods of this node that a policy
\* of the given kinds targets
enabledPodsOfAnyNode(pods, networkPoliciesInfo, nodeIp, kinds) ==
    LET found == {pod \in pods :
                    \E i \in DOMAIN networkPoliciesInfo :
                       /\ networkPoliciesInfo[i].namespace = pod.namespace
                       /\ pod.podIP \in DOMAIN networkPoliciesInfo[i].targetPods
                       /\ networkPoliciesInfo[i].policyType \in kinds}
    IN [ip \in {pod.podIP : pod \in found} |->
           podInfo(CHOOSE pod \in found : pod.podIP = ip)]
enabledPods(pods, networkPoliciesInfo, nodeIp, kinds) ==
    LET found == {pod \in pods :
                    /\ pod.hostIP = nodeIp
                    /\ \E i \in DOMAIN networkPoliciesInfo :
                          /\ networkPoliciesInfo[i].namespace = pod.namespace
                          /\ pod.podIP \in DOMAIN networkPoliciesInfo[i].targetPods
                          /\ networkPoliciesInfo[i].policyType \in kinds}
    IN [ip \in {pod.podIP : pod \in found} |->
           podInfo(CHOOSE pod \in found : pod.podIP = ip)]

getIngressNetworkPolicyEnabledPods(pods, networkPoliciesInfo, nodeIp) ==
    enabledPods(pods, networkPoliciesInfo, nodeIp, {"both", "ingress"})

getEgressNetworkPolicyEnabledPods(pods, networkPoliciesInfo, nodeIp) ==
    enabledPods(pods, networkPoliciesInfo, nodeIp, {"both", "egress"})

\* the rules of a pod firewall chain and of the top-level chains
policyJumpRule(policy, version) ==
    RuleSpec("run through nw policy " \o policy.name, FALSE, "", "", "", "", NoSet, NoSet,
             "", "", networkPolicyChainName(policy.namespace, policy.name, version))

localSourceRule(pod) ==
    RuleSpec("rule to permit the traffic traffic to pods when source is the pod's local node",
             FALSE, "LOCAL", "", "", pod.ip, NoSet, NoSet, "", "", ACCEPT)

statefulRule ==
    RuleSpec("rule for stateful firewall for pod", FALSE, "", "RELATED,ESTABLISHED",
             "", "", NoSet, NoSet, "", "", ACCEPT)

nflogRule(pod) ==
    RuleSpec("rule to log dropped traffic POD name:" \o pod.name \o " namespace: "
             \o pod.namespace, FALSE, "", "", "", "", NoSet, NoSet, "", "", NFLOG)

rejectRule(pod) ==
    RuleSpec("default rule to REJECT traffic destined for POD name:" \o pod.name
             \o " namespace: " \o pod.namespace, FALSE, "", "", "", "", NoSet, NoSet,
             "", "", REJECT)

\* the comment of a jump rule ends with the name of the chain, which is the
\* target too
jumpToPodRule(pod, podFwChainName, bridged) ==
    [RuleSpec("rule to jump traffic destined to POD name:" \o pod.name \o " namespace: "
              \o pod.namespace \o " to chain ",
              bridged, "", "", "", pod.ip, NoSet, NoSet, "", "", podFwChainName)
     EXCEPT !.commentChain = podFwChainName]

jumpFromPodRule(pod, podFwChainName, bridged) ==
    [RuleSpec("rule to jump traffic from POD name:" \o pod.name \o " namespace: "
              \o pod.namespace \o " to chain ",
              bridged, "", "", pod.ip, "", NoSet, NoSet, "", "", podFwChainName)
     EXCEPT !.commentChain = podFwChainName]

policyJumpsNone(pod, podFwChainName, networkPoliciesInfo, version) == <<>>
\* the jumps from a pod chain to the chains of the policies that target it
policyJumps(pod, podFwChainName, networkPoliciesInfo, version) ==
    Flatten([i \in DOMAIN networkPoliciesInfo |->
        IF pod.ip \in DOMAIN networkPoliciesInfo[i].targetPods
        THEN <<EnsureRule(podFwChainName, policyJumpRule(networkPoliciesInfo[i], version))>>
        ELSE <<>>])

\* the first loop with the stateful ACCEPT appended after the default rules
\* instead of inserted at the head of the chain
ingressPodCallsAcceptLast(pod, networkPoliciesInfo, version) ==
    LET podFwChainName == podFirewallChainName(pod.namespace, pod.name, version)
    IN IF pod.ip = "" THEN <<>>
       ELSE <<NewChain(podFwChainName)>>
            \o policyJumps(pod, podFwChainName, networkPoliciesInfo, version)
            \o <<EnsureRule(podFwChainName, localSourceRule(pod)),
                 EnsureRule(FORWARD, jumpToPodRule(pod, podFwChainName, FALSE)),
                 EnsureRule(OUTPUT, jumpToPodRule(pod, podFwChainName, FALSE)),
                 EnsureRule(FORWARD, jumpToPodRule(pod, podFwChainName, TRUE)),
                 AppendUnique(podFwChainName, nflogRule(pod)),
                 AppendUnique(podFwChainName, rejectRule(pod)),
                 AppendUnique(podFwChainName, statefulRule)>>

\* the body of the first loop of syncPodFirewallChains for one pod
ingressPodCalls(pod, networkPoliciesInfo, version) ==
    LET podFwChainName == podFirewallChainName(pod.namespace, pod.name, version)
    IN IF pod.ip = "" THEN <<>>
       ELSE <<NewChain(podFwChainName)>>
            \o policyJumps(pod, podFwChainName, networkPoliciesInfo, version)
            \o <<EnsureRule(podFwChainName, localSourceRule(pod)),
                 EnsureRule(podFwChainName, statefulRule),
                 EnsureRule(FORWARD, jumpToPodRule(pod, podFwChainName, FALSE)),
                 EnsureRule(OUTPUT, jumpToPodRule(pod, podFwChainName, FALSE)),
                 EnsureRule(FORWARD, jumpToPodRule(pod, podFwChainName, TRUE)),
                 AppendUnique(podFwChainName, nflogRule(pod)),
                 AppendUnique(podFwChainName, rejectRule(pod))>>

egressPodCallsWithoutInput(pod, networkPoliciesInfo, version) ==
    LET podFwChainName == podFirewallChainName(pod.namespace, pod.name, version)
    IN IF pod.ip = "" THEN <<>>
       ELSE <<NewChain(podFwChainName)>>
            \o policyJumps(pod, podFwChainName, networkPoliciesInfo, version)
            \o <<EnsureRule(podFwChainName, statefulRule),
                 EnsureRule(FORWARD, jumpFromPodRule(pod, podFwChainName, FALSE)),
                 EnsureRule(OUTPUT, jumpFromPodRule(pod, podFwChainName, FALSE)),
                 EnsureRule(FORWARD, jumpFromPodRule(pod, podFwChainName, TRUE)),
                 AppendUnique(podFwChainName, nflogRule(pod)),
                 AppendUnique(podFwChainName, rejectRule(pod))>>
\* the body of the second loop of syncPodFirewallChains for one pod
egressPodCalls(pod, networkPoliciesInfo, version) ==
    LET podFwChainName == podFirewallChainName(pod.namespace, pod.name, version)
    IN IF pod.ip = "" THEN <<>>
       ELSE <<NewChain(podFwChainName)>>
            \o policyJumps(pod, podFwChainName, networkPoliciesInfo, version)
            \o <<EnsureRule(podFwChainName, statefulRule),
                 EnsureRule(FORWARD, jumpFromPodRule(pod, podFwChainName, FALSE)),
                 EnsureRule(OUTPUT, jumpFromPodRule(pod, podFwChainName, FALSE)),
                 EnsureRule(INPUT, jumpFromPodRule(pod, podFwChainName, FALSE)),
                 EnsureRule(FORWARD, jumpFromPodRule(pod, podFwChainName, TRUE)),
                 AppendUnique(podFwChainName, nflogRule(pod)),
                 AppendUnique(podFwChainName, rejectRule(pod))>>

\* the calls of one loop of syncPodFirewallChains, for the pods of the map
\* in the order the range over the map yields them
syncPodFirewallChainsIngress(nodePods, order, networkPoliciesInfo, version) ==
    Flatten([i \in DOMAIN order |->
                ingressPodCalls(nodePods[order[i]], networkPoliciesInfo, version)])

syncPodFirewallChainsEgress(nodePods, order, networkPoliciesInfo, version) ==
    Flatten([i \in DOMAIN order |->
                egressPodCalls(nodePods[order[i]], networkPoliciesInfo, version)])

\* the chains one loop records in activePodFwChains
activePodFwChainsOf(nodePods, version) ==
    {podFirewallChainName(nodePods[ip].namespace, nodePods[ip].name, version) :
        ip \in {x \in DOMAIN nodePods : x # ""}}

(***************************************************************************)
(* cleanupStaleRules.  It reads the kernel as it goes, so it is a function *)
(* from machine to machine.                                                *)
(***************************************************************************)
\* the inner loop as it would be with the listed index as the rule number
RECURSIVE deleteReferencesByListedIndex(_, _, _, _, _, _)
deleteReferencesByListedIndex(m, chain, rules, i, realRuleNo, podFwChain) ==
    IF m.err \/ i > Len(rules) THEN m
    ELSE IF RuleContains(rules[i], podFwChain)
    THEN deleteReferencesByListedIndex(Exec(m, DeleteRule(chain, i)),
                                       chain, rules, i + 1, realRuleNo + 1, podFwChain)
    ELSE deleteReferencesByListedIndex(m, chain, rules, i + 1, realRuleNo, podFwChain)

\* the inner loop over the listed rules of a top-level chain: a rule that
\* names the stale pod chain is deleted by number, the number corrected by
\* the count of rules deleted so far.  rules[i] is the rule that List gives
\* at index i (index 0 of List is the header of the chain)
RECURSIVE deleteReferences(_, _, _, _, _, _)
deleteReferences(m, chain, rules, i, realRuleNo, podFwChain) ==
    IF m.err \/ i > Len(rules) THEN m
    ELSE IF RuleContains(rules[i], podFwChain)
    THEN deleteReferences(Exec(m, DeleteRule(chain, i - realRuleNo)),
                          chain, rules, i + 1, realRuleNo + 1, podFwChain)
    ELSE deleteReferences(m, chain, rules, i + 1, realRuleNo, podFwChain)

\* for one stale pod chain: the loop over the primary chains
RECURSIVE removeFromPrimaryChains(_, _, _)
removeFromPrimaryChains(m, primaryChains, podFwChain) ==
    IF m.err \/ primaryChains = <<>> THEN m
    ELSE LET listed == Exec(m, ListRules(Head(primaryChains), "abort"))
         IN IF listed.err THEN listed
            ELSE removeFromPrimaryChains(
                     deleteReferences(listed, Head(primaryChains),
                                      listed.chains[Head(primaryChains)], 1, 0, podFwChain),
                     Tail(primaryChains), podFwChain)

RECURSIVE removePodFwChainReferences(_, _)
removePodFwChainReferences(m, cleanupPodFwChains) ==
    IF m.err \/ cleanupPodFwChains = <<>> THEN m
    ELSE removePodFwChainReferences(
             removeFromPrimaryChains(m, <<FORWARD, OUTPUT, INPUT>>, Head(cleanupPodFwChains)),
             Tail(cleanupPodFwChains))

clearAndDeleteSkipped(m, cleanupChains) == m
\* ClearChain then DeleteChain of every chain of the list
RECURSIVE clearAndDelete(_, _)
clearAndDelete(m, cleanupChains) ==
    IF m.err \/ cleanupChains = <<>> THEN m
    ELSE clearAndDelete(ExecAll(m, <<ClearChain(Head(cleanupChains)),
                                     DeleteChain(Head(cleanupChains))>>),
                        Tail(cleanupChains))

\* the first rule of an active pod chain that names the stale policy chain
\* is deleted by its index in the listing; a failed listing lists nothing
firstReference(rules, policyChain) ==
    LET found == {i \in DOMAIN rules : RuleContains(rules[i], policyChain)}
    IN IF found = {} THEN 0 ELSE CHOOSE i \in found : \A k \in found : i <= k

RECURSIVE removePolicyChainReferences(_, _, _)
removePolicyChainReferences(m, activePodFwChains, policyChain) ==
    IF m.err \/ activePodFwChains = <<>> THEN m
    ELSE LET podFwChain == Head(activePodFwChains)
             listed == Exec(m, ListRules(podFwChain, "log"))
             podFwChainRules == IF (listed.hit /\ ~m.hit) \/ podFwChain \notin DOMAIN listed.chains
                                THEN <<>> ELSE listed.chains[podFwChain]
             i == firstReference(podFwChainRules, policyChain)
         IN removePolicyChainReferences(
                IF i = 0 THEN listed ELSE Exec(listed, DeleteRule(podFwChain, i)),
                Tail(activePodFwChains), policyChain)

RECURSIVE cleanupPolicyChainsLoop(_, _, _)
cleanupPolicyChainsLoop(m, cleanupPolicyChains, activePodFwChains) ==
    IF m.err \/ cleanupPolicyChains = <<>> THEN m
    ELSE cleanupPolicyChainsLoop(
             clearAndDelete(removePolicyChainReferences(m, activePodFwChains,
                                                        Head(cleanupPolicyChains)),
                            <<Head(cleanupPolicyChains)>>),
             Tail(cleanupPolicyChains), activePodFwChains)

\* the chains and sets that cleanupStaleRules finds to be no longer used
stalePolicyChainsNone(chainNames, activePolicyChains) == {}
stalePolicyChains(chainNames, activePolicyChains) ==
    {chain \in chainNames : /\ HasPrefix(chain, kubeNetworkPolicyChainPrefix)
                            /\ chain \notin activePolicyChains}

stalePodFwChains(chainNames, activePodFwChains) ==
    {chain \in chainNames : /\ HasPrefix(chain, kubePodFirewallChainPrefix)
                            /\ chain \notin activePodFwChains}

stalePolicyIPSetsNone(setNames, activePolicyIPSets) == {}
stalePolicyIPSets(setNames, activePolicyIPSets) ==
    {set \in setNames : /\ \/ HasPrefix(set, kubeSourceIpSetPrefix)
                           \/ HasPrefix(set, kubeDestinationIpSetPrefix)
                        /\ set \notin activePolicyIPSets}

cleanupStaleRulesSkipped(m, activePolicyChains, activePodFwChains, activePolicyIPSets) == m
\* the second loop on with the stale policy chains taken before the stale
\* pod chains
cleanupStaleRulesFromPolicyChainsFirst(unreferenced, cleanupPodFwChains, cleanupPolicyChains, activePodFwChains, cleanupPolicyIPSets) ==
    LET policyChainsGone == cleanupPolicyChainsLoop(unreferenced, cleanupPolicyChains,
                                                    SetToSeq(activePodFwChains))
        podChainsGone == clearAndDelete(policyChainsGone, cleanupPodFwChains)
    IN ExecAll(podChainsGone,
               [i \in DOMAIN cleanupPolicyIPSets |-> DestroySet(cleanupPolicyIPSets[i])])

\* cleanupStaleRules from its second loop on: the stale pod chains, the stale
\* policy chains with their references in the active pod chains, the sets
cleanupStaleRulesFrom(unreferenced, cleanupPodFwChains, cleanupPolicyChains, activePodFwChains, cleanupPolicyIPSets) ==
    LET podChainsGone == clearAndDelete(unreferenced, cleanupPodFwChains)
        policyChainsGone == cleanupPolicyChainsLoop(podChainsGone, cleanupPolicyChains,
                                                    SetToSeq(activePodFwChains))
    IN ExecAll(policyChainsGone,
               [i \in DOMAIN cleanupPolicyIPSets |-> DestroySet(cleanupPolicyIPSets[i])])

cleanupStaleRules(m, activePolicyChains, activePodFwChains, activePolicyIPSets) ==
    LET saved == Exec(m, SaveSets)
        listed == Exec(saved, ListChains)
        chainNames == IF listed.hit /\ ~saved.hit THEN {} ELSE DOMAIN listed.chains
        cleanupPolicyChains == SetToSeq(stalePolicyChains(chainNames, activePolicyChains))
        cleanupPodFwChains == SetToSeq(stalePodFwChains(chainNames, activePodFwChains))
        cleanupPolicyIPSets ==
            SetToSeq(stalePolicyIPSets(DOMAIN saved.ipsets, activePolicyIPSets))
        unreferenced == removePodFwChainReferences(listed, cleanupPodFwChains)
    IN IF saved.err THEN saved
       ELSE cleanupStaleRulesFrom(unreferenced, cleanupPodFwChains, cleanupPolicyChains,
                                  activePodFwChains, cleanupPolicyIPSets)

(***************************************************************************)
(* Cleanup: what the shutdown cleanup does to the kernel.                  *)
(***************************************************************************)
\* strings.Contains(rule, prefix) for the prefix of a family of chains
RuleContainsPrefix(rule, prefix) == HasPrefix(rule.j, prefix) \/ HasPrefix(rule.commentChain, prefix)

\* iptables.Delete by rule number, the error assigned and never read
DeleteRuleUnchecked(chain, pos) == Call("Delete", chain, NoRule, pos, NoSet, "", {}, "log")

\* the loop over the listed rules of a top-level chain: a rule that names a
\* pod chain is deleted by number, the number corrected by the count of
\* rules met so far
RECURSIVE deletePodFwReferences(_, _, _, _, _)
deletePodFwReferences(m, chain, rules, i, realRuleNo) ==
    IF i > Len(rules) THEN m
    ELSE IF RuleContainsPrefix(rules[i], kubePodFirewallChainPrefix)
    THEN deletePodFwReferences(Exec(m, DeleteRuleUnchecked(chain, i - realRuleNo)),
                               chain, rules, i + 1, realRuleNo + 1)
    ELSE deletePodFwReferences(m, chain, rules, i + 1, realRuleNo)

\* the top-level chains whose jump rules Cleanup deletes
cleanupPrimaryChains == <<FORWARD, OUTPUT>>

RECURSIVE cleanupFromPrimaryChains(_, _)
cleanupFromPrimaryChains(m, primaryChains) ==
    IF m.err \/ primaryChains = <<>> THEN m
    ELSE LET listed == Exec(m, ListRules(Head(primaryChains), "abort"))
         IN IF listed.err THEN listed
            ELSE cleanupFromPrimaryChains(
                     deletePodFwReferences(listed, Head(primaryChains),
                                           listed.chains[Head(primaryChains)], 1, 0),
                     Tail(primaryChains))

\* the chains of a family that ListChains gives
chainsWithPrefix(chains, prefix) == {chain \in DOMAIN chains : HasPrefix(chain, prefix)}

\* IPSet.DestroyAllWithin: every set that Save found is destroyed, the
\* first error returned
DestroyAllWithin(ipsets) ==
    LET sets == SetToSeq(DOMAIN ipsets) IN [i \in DOMAIN sets |-> DestroySet(sets[i])]

\* Cleanup from the kernel of m; podFwChains is the order in which
\* ListChains gives the pod chains.  A return after an error leaves the
\* rest undone (m.err)
cleanupKernel(m, podFwChains) ==
    LET unhooked == cleanupFromPrimaryChains(m, cleanupPrimaryChains)
        podChainsGone == clearAndDelete(unhooked, podFwChains)
        policyChainsGone ==
            clearAndDelete(podChainsGone,
                           SetToSeq(chainsWithPrefix(podChainsGone.chains,
                                                     kubeNetworkPolicyChainPrefix)))
    IN ExecAll(policyChainsGone, DestroyAllWithin(policyChainsGone.ipsets))

(***************************************************************************)
(* The controller as a state machine.                                      *)
(***************************************************************************)
VARIABLES
    podCache,             \* podLister: the status of every pod of PodIds
    npCache,              \* npLister: the policies that exist
    chains,               \* the filter table: chain name -> rules
    ipsets,               \* the ipsets of the kernel: name -> type, entries
    mu,                   \* npc.mu: "" or the thread that holds it
    pc,                   \* where each thread is
    frame,                \* the locals of the Sync a thread runs
    networkPoliciesInfo,  \* npc.networkPoliciesInfo
    readyForUpdates,      \* npc.readyForUpdates
    v1NetworkPolicy,      \* npc.v1NetworkPolicy: the server has networking.k8s.io/v1 policies
    epoch,                \* the clock: the last value given as syncVersion
    heartbeats,           \* heartbeats sent on healthChan so far
    crashed,              \* glog.Fatalf ended the process
    faults,               \* driver failures injected so far
    changes,              \* cache changes so far
    budget,               \* the bounds of this behaviour
    done,                 \* the Syncs that returned, the latest last
    unseen,               \* a cache changed and no Sync started since
    stopCh,               \* stopCh is closed: the stop signal is raised
    cleaned               \* Cleanup ran on what the controller left behind

vars == <<podCache, npCache, chains, ipsets, mu, pc, frame, networkPoliciesInfo,
          readyForUpdates, epoch, heartbeats, crashed, faults, changes, budget, done,
          unseen, stopCh, cleaned, v1NetworkPolicy>>

\* the goroutine of Run and the informer goroutines that call the handlers
Threads == {"run", "pod", "np", "ns"}
Handlers == {"pod", "np", "ns"}

InSync == {"chains", "podfw", "egressfw", "cleanup"}

\* the pod objects of the cache
PodsOf(cache) == {PodObject(id, cache[id]) : id \in {x \in PodIds : cache[x] # "absent"}}

\* the locals of cleanupStaleRules while its first loop runs step by step:
\* the three lists of stale names, the stale pod chains and the primary
\* chains still to go, the listing of the primary chain, the index into it
\* (0: not listed yet) and realRuleNo
NoGc ==
    [cleanupPodFwChains |-> <<>>, cleanupPolicyChains |-> <<>>, cleanupPolicyIPSets |-> <<>>,
     podFwChains |-> <<>>, primaryChains |-> <<>>, rules |-> <<>>, i |-> 0, realRuleNo |-> 0]

NoFrame ==
    [version |-> "", activePolicyChains |-> {}, activePolicyIpSets |-> {},
     activePodFwChains |-> {}, hit |-> FALSE, dirty |-> FALSE,
     pods |-> <<>>, nps |-> {}, failed |-> {}, ingressPods |-> <<>>, egressPods |-> <<>>,
     gc |-> NoGc]

\* the states the caches start in
InitPodCaches ==
    {c \in [PodIds -> PodStatus] :
        /\ c["a"] = "local"
        /\ c["b"] \in {"local", "pending"}
        /\ c["c"] = "local"}

InitNpCaches == {{PolicyDeny, PolicyEgress}}

\* the life of a pod: created (seen first pending or already running),
\* scheduled and given its address, updated with another host address or
\* another label, deleted
PodLife ==
    {<<"absent", "pending">>, <<"absent", "local">>, <<"absent", "remote">>,
     <<"pending", "local">>, <<"pending", "remote">>, <<"pending", "absent">>,
     <<"local", "remote">>, <<"local", "relabelled">>, <<"relabelled", "local">>,
     <<"local", "absent">>, <<"remote", "absent">>, <<"relabelled", "absent">>}

\* NewNetworkPolicyController, with a kernel that holds nothing of ours
InitController(bounds, v1) ==
    /\ chains = EmptyChains
    /\ ipsets = EmptyIpSets
    /\ mu = ""
    /\ pc = [t \in Threads |-> IF t = "run" THEN "top" ELSE "idle"]
    /\ frame = [t \in Threads |-> NoFrame]
    /\ networkPoliciesInfo = <<>>
    /\ readyForUpdates = FALSE
    /\ v1NetworkPolicy = v1
    /\ epoch = 0
    /\ heartbeats = 0
    /\ crashed = FALSE
    /\ faults = 0
    /\ changes = 0
    /\ budget = bounds
    /\ done = <<>>
    /\ unseen = FALSE
    /\ stopCh = FALSE
    /\ cleaned = FALSE

InitState(bounds, v1) ==
    /\ podCache \in InitPodCaches
    /\ npCache \in InitNpCaches
    /\ InitController(bounds, v1)

Init == InitState([epochs |-> MaxEpoch, faults |-> MaxFaults, changes |-> MaxChanges], TRUE)

\* a cache change reaches every Sync that is running
Dirtied == [t \in Threads |-> IF pc[t] \in InSync THEN [frame[t] EXCEPT !.dirty = TRUE]
                              ELSE frame[t]]

podEventPassesAlways(old, new) == TRUE
\* what the pod event handler does with the event of a change: AddFunc and
\* DeleteFunc always call into the controller, UpdateFunc only when the
\* phase or the address changed
podEventPasses(old, new) ==
    \/ old = "absent"
    \/ new = "absent"
    \/ (old = "pending") # (new = "pending")

\* the informer updates the pod cache and calls the pod event handler
PodEvent(id, status) ==
    /\ ~crashed
    /\ changes < budget.changes
    /\ pc["pod"] = "idle"
    /\ <<podCache[id], status>> \in PodLife
    /\ podCache' = [podCache EXCEPT ![id] = status]
    /\ pc' = [pc EXCEPT !["pod"] = IF podEventPasses(podCache[id], status)
                                   THEN "called" ELSE "idle"]
    /\ frame' = Dirtied
    /\ changes' = changes + 1
    /\ unseen' = TRUE
    /\ UNCHANGED <<npCache, chains, ipsets, mu, networkPoliciesInfo, readyForUpdates,
                   epoch, heartbeats, crashed, faults, budget, v1NetworkPolicy, stopCh, cleaned, done>>

\* the informer updates the policy cache and calls the policy event handler
PolicyEvent(policy) ==
    /\ ~crashed
    /\ changes < budget.changes
    /\ pc["np"] = "idle"
    /\ npCache' = IF policy \in npCache THEN npCache \ {policy} ELSE npCache \cup {policy}
    /\ pc' = [pc EXCEPT !["np"] = "called"]
    /\ frame' = Dirtied
    /\ changes' = changes + 1
    /\ unseen' = TRUE
    /\ UNCHANGED <<podCache, chains, ipsets, mu, networkPoliciesInfo, readyForUpdates,
                   epoch, heartbeats, crashed, faults, budget, v1NetworkPolicy, stopCh, cleaned, done>>

\* the informer calls the namespace event handler: a namespace was added,
\* updated (or delivered again by a resync) or deleted.  The policies of
\* the catalogue select no namespace, so the model built from the caches
\* stays what it was
NamespaceEvent ==
    /\ ~crashed
    /\ changes < budget.changes
    /\ pc["ns"] = "idle"
    /\ pc' = [pc EXCEPT !["ns"] = "called"]
    /\ changes' = changes + 1
    /\ unseen' = TRUE
    /\ UNCHANGED <<podCache, npCache, chains, ipsets, mu, frame, networkPoliciesInfo,
                   readyForUpdates, epoch, heartbeats, crashed, faults, budget, v1NetworkPolicy, stopCh, cleaned, done>>

\* whether a handler goes on to call Sync: the namespace handlers return
\* first when v1NetworkPolicy is set, all of them when readyForUpdates is not
handlerCallsSyncAlways(t) == TRUE
handlerCallsSyncInAnyMode(t) == readyForUpdates
handlerCallsSync(t) ==
    /\ ~(t = "ns" /\ v1NetworkPolicy)
    /\ readyForUpdates

\* OnPodUpdate, handlePodDelete, OnNetworkPolicyUpdate,
\* handleNetworkPolicyDelete, OnNamespaceUpdate, handleNamespaceDelete up to
\* the call of Sync
OnUpdate(t) ==
    /\ ~crashed
    /\ pc[t] = "called"
    /\ pc' = [pc EXCEPT ![t] = IF handlerCallsSync(t) THEN "sync" ELSE "idle"]
    /\ UNCHANGED <<podCache, npCache, chains, ipsets, mu, frame, networkPoliciesInfo,
                   readyForUpdates, epoch, heartbeats, crashed, faults, changes, budget, v1NetworkPolicy, stopCh, cleaned, done,
                   unseen>>

\* npc.mu.Lock()
muLockWithoutWait(t) == mu' = t
muLock(t) == mu = "" /\ mu' = t

\* the peers of a rule whose evalPodPeer returned no error: peerErr holds
\* the positions in From or To of the peers whose lookup failed
KeptPeers(peers, peerErr) ==
    LET kept == {i \in DOMAIN peers : i \notin peerErr}
        nth(k) == CHOOSE i \in kept : Cardinality({x \in kept : x < i}) = k - 1
    IN [k \in 1 .. Cardinality(kept) |-> peers[nth(k)]]

\* the loops over From and To of buildNetworkPoliciesInfo (1242-1256,
\* 1283-1298) when evalPodPeer fails for some peers: such a peer adds no
\* pod, and its blocks are evaluated all the same
buildIngressRuleSkipping(pods, policy, specIngressRule, namedPort2IngressEps, peerErr) ==
    [buildIngressRule(pods, policy, specIngressRule, namedPort2IngressEps) EXCEPT
        !.srcPods = {podInfo(p) : p \in peerPodsOf(pods, policy,
                                                   KeptPeers(specIngressRule.peers, peerErr))}]

buildEgressRuleSkipping(pods, policy, specEgressRule, peerErr) ==
    [buildEgressRule(pods, policy,
                     [specEgressRule EXCEPT !.peers = KeptPeers(@, peerErr)]) EXCEPT
        !.matchAllDestinations = (Len(specEgressRule.peers) = 0),
        !.dstIPBlocks = ipBlocksOf(specEgressRule.peers)]

newPolicySkipping(pods, policy, listErr, peerErr) ==
    LET built == newPolicy(pods, policy, listErr)
        namedPort2IngressEps ==
            grabNamedPortFromPod({p \in pods : p.podIP \in DOMAIN built.targetPods})
    IN [built EXCEPT
           !.ingressRules = [i \in DOMAIN policy.ingress |->
                                buildIngressRuleSkipping(pods, policy, policy.ingress[i],
                                                         namedPort2IngressEps, peerErr)],
           !.egressRules = [i \in DOMAIN policy.egress |->
                               buildEgressRuleSkipping(pods, policy, policy.egress[i],
                                                       peerErr)]]

\* buildNetworkPoliciesInfo with the lookups that fail: of the target pods
\* of policy failAt, of the peers at the positions peerErr
buildNetworkPoliciesInfoSkipping(pods, policyList, failAt, peerErr) ==
    IF peerErr = {} THEN buildNetworkPoliciesInfo(pods, policyList, failAt)
    ELSE [i \in DOMAIN policyList |->
             newPolicySkipping(pods, policyList[i], i = failAt, peerErr)]

\* the lookups of peers that fail in one reconcile: none, unless the bounds
\* of the behaviour name a number of peers
PeerFaultChoices ==
    IF "peers" \in DOMAIN budget /\ faults < budget.faults
    THEN SUBSET (1 .. budget.peers) ELSE {{}}

\* the policies for which the lookup of the pods may fail (0: for none)
ListFaultChoices(policyList) ==
    IF faults < budget.faults THEN 0 .. Len(policyList) ELSE {0}

\* the start of Sync: the lock, the heartbeat, the version, the model.  The
\* policies come in the order npLister.List gives them
SyncBegin(t) ==
    /\ ~crashed
    /\ pc[t] = "sync"
    /\ epoch - Cardinality({u \in Threads : pc[u] \in InSync}) < budget.epochs
    /\ muLock(t)
    /\ heartbeats' = heartbeats + 1
    /\ epoch' = epoch + 1
    /\ unseen' = FALSE
    /\ \E policyList \in Perms(npCache) : \E failAt \in ListFaultChoices(policyList) :
       \E peerErr \in (IF failAt = 0 /\ v1NetworkPolicy THEN PeerFaultChoices ELSE {{}}) :
          /\ networkPoliciesInfo' =
                 IF v1NetworkPolicy
                 THEN buildNetworkPoliciesInfoSkipping(PodsOf(podCache), policyList, failAt,
                                                       peerErr)
                 ELSE buildBetaNetworkPoliciesInfo(PodsOf(podCache), policyList, failAt)
          /\ faults' = IF failAt > 0 \/ peerErr # {} THEN faults + 1 ELSE faults
          /\ frame' = [frame EXCEPT ![t] =
                          [NoFrame EXCEPT !.version = Itoa(epoch + 1),
                                          !.pods = podCache,
                                          !.nps = npCache,
                                          !.hit = failAt > 0 \/ peerErr # {},
                                          !.failed = IF failAt > 0 THEN {"ListPods"}
                                                     ELSE IF peerErr # {}
                                                     THEN {"evalPodPeer"} ELSE {}]]
    /\ pc' = [pc EXCEPT ![t] = "chains"]
    /\ UNCHANGED <<podCache, npCache, chains, ipsets, readyForUpdates, crashed,
                   changes, budget, v1NetworkPolicy, stopCh, cleaned, done>>

\* the positions at which a driver call may fail by injection (0: nowhere)
FaultChoices == IF faults < budget.faults THEN 0 .. MaxFaultPos ELSE {0}

\* the record of a Sync that returned
Returned(t, fr, m, ok) ==
    [thread |-> t, ok |-> ok, clean |-> (ok /\ ~fr.hit /\ ~fr.dirty),
     part |-> pc[t], failed |-> fr.failed, before |-> chains,
     ingressPods |-> fr.ingressPods, egressPods |-> fr.egressPods,
     version |-> fr.version, pods |-> fr.pods, nps |-> fr.nps,
     info |-> networkPoliciesInfo, chains |-> m.chains, ipsets |-> m.ipsets,
     activePolicyChains |-> fr.activePolicyChains,
     activePodFwChains |-> fr.activePodFwChains,
     activePolicyIpSets |-> fr.activePolicyIpSets]

LastTwo(s) == IF Len(s) > 2 THEN Tail(s) ELSE s

\* the end of a part of Sync that left the kernel as m has it: the process
\* exits, or Sync returns the error (the deferred Unlock runs), or Sync goes
\* on to the next part, or (next = "ret") returns nil
Advance(t, m, next, fr) ==
    LET fr2 == [fr EXCEPT !.hit = fr.hit \/ m.hit, !.failed = fr.failed \cup m.failed]
        returns == m.err \/ next = "ret"
    IN /\ chains' = m.chains
       /\ ipsets' = m.ipsets
       /\ faults' = IF m.hit THEN faults + 1 ELSE faults
       /\ crashed' = m.fatal
       /\ IF m.fatal
          THEN UNCHANGED <<mu, pc, frame, done>>
          ELSE IF returns
          THEN /\ mu' = ""
               /\ pc' = [pc EXCEPT ![t] = IF t = "run"
                                          THEN (IF m.err THEN "posterr" ELSE "postok")
                                          ELSE "idle"]
               /\ frame' = [frame EXCEPT ![t] = NoFrame]
               /\ done' = LastTwo(Append(done, Returned(t, fr2, m, ~m.err)))
          ELSE /\ pc' = [pc EXCEPT ![t] = next]
               /\ frame' = [frame EXCEPT ![t] = fr2]
               /\ UNCHANGED <<mu, done>>
       /\ UNCHANGED <<podCache, npCache, networkPoliciesInfo, readyForUpdates, epoch,
                      heartbeats, changes, budget, v1NetworkPolicy, stopCh, cleaned, unseen>>

\* Sync: the call of syncNetworkPolicyChains
SyncPolicyChains(t) ==
    /\ ~crashed
    /\ pc[t] = "chains"
    /\ \E f \in FaultChoices :
          LET m == ExecAll(Machine(chains, ipsets, f),
                           syncNetworkPolicyChains(networkPoliciesInfo, frame[t].version))
          IN /\ f = 0 \/ m.hit
             /\ Advance(t, m, "podfw",
                        [frame[t] EXCEPT
                            !.activePolicyChains =
                                activePolicyChainsOf(networkPoliciesInfo, frame[t].version),
                            !.activePolicyIpSets =
                                activePolicyIpSetsOf(networkPoliciesInfo, frame[t].version)])

\* Sync: the first loop of syncPodFirewallChains, over the pods the pod
\* cache holds now, in the order the range over the map gives them
SyncPodFwIngress(t) ==
    /\ ~crashed
    /\ pc[t] = "podfw"
    /\ LET nodePods == getIngressNetworkPolicyEnabledPods(PodsOf(podCache),
                                                          networkPoliciesInfo, NodeIP)
       IN \E order \in Perms(DOMAIN nodePods) : \E f \in FaultChoices :
             LET m == ExecAll(Machine(chains, ipsets, f),
                              syncPodFirewallChainsIngress(nodePods, order,
                                                           networkPoliciesInfo,
                                                           frame[t].version))
             IN /\ f = 0 \/ m.hit
                /\ Advance(t, m, "egressfw",
                           [frame[t] EXCEPT !.activePodFwChains =
                                                activePodFwChainsOf(nodePods, frame[t].version),
                                            !.ingressPods = podCache])

\* Sync: the second loop of syncPodFirewallChains
SyncPodFwEgress(t) ==
    /\ ~crashed
    /\ pc[t] = "egressfw"
    /\ LET nodePods == getEgressNetworkPolicyEnabledPods(PodsOf(podCache),
                                                         networkPoliciesInfo, NodeIP)
       IN \E order \in Perms(DOMAIN nodePods) : \E f \in FaultChoices :
             LET m == ExecAll(Machine(chains, ipsets, f),
                              syncPodFirewallChainsEgress(nodePods, order,
                                                          networkPoliciesInfo,
                                                          frame[t].version))
             IN /\ f = 0 \/ m.hit
                /\ Advance(t, m, "cleanup",
                           [frame[t] EXCEPT !.activePodFwChains =
                                                @ \cup activePodFwChainsOf(nodePods,
                                                                           frame[t].version),
                                            !.egressPods = podCache])

\* Sync: the call of cleanupStaleRules and the return of Sync
SyncCleanup(t) ==
    /\ ~crashed
    /\ pc[t] = "cleanup"
    /\ \E f \in FaultChoices :
          LET m == cleanupStaleRules(Machine(chains, ipsets, f),
                                     frame[t].activePolicyChains,
                                     frame[t].activePodFwChains,
                                     frame[t].activePolicyIpSets)
          IN /\ f = 0 \/ m.hit
             /\ Advance(t, m, "ret", frame[t])

\* Run, after Sync returned: the heartbeat when there was no error, then
\* readyForUpdates
AfterSync ==
    /\ ~crashed
    /\ pc["run"] \in {"postok", "posterr"}
    /\ heartbeats' = IF pc["run"] = "postok" THEN heartbeats + 1 ELSE heartbeats
    /\ readyForUpdates' = TRUE
    /\ pc' = [pc EXCEPT !["run"] = "wait"]
    /\ UNCHANGED <<podCache, npCache, chains, ipsets, mu, frame, networkPoliciesInfo,
                   epoch, crashed, faults, changes, budget, v1NetworkPolicy, stopCh, cleaned, done, unseen>>

\* Run: the ticker fires and the loop goes round
Tick ==
    /\ ~crashed
    /\ pc["run"] = "wait"
    /\ pc' = [pc EXCEPT !["run"] = "top"]
    /\ UNCHANGED <<podCache, npCache, chains, ipsets, mu, frame, networkPoliciesInfo,
                   readyForUpdates, epoch, heartbeats, crashed, faults, changes, budget, v1NetworkPolicy, stopCh, cleaned, done,
                   unseen>>

\* Run: the top of the loop, where stopCh is polled before Sync is called
LoopTop ==
    /\ ~crashed
    /\ pc["run"] = "top"
    /\ pc' = [pc EXCEPT !["run"] = IF stopCh THEN "returned" ELSE "sync"]
    /\ UNCHANGED <<podCache, npCache, chains, ipsets, mu, frame, networkPoliciesInfo,
                   readyForUpdates, epoch, heartbeats, crashed, faults, changes, budget, v1NetworkPolicy,
                   stopCh, cleaned, done, unseen>>

StopWhileWaitingNever == FALSE /\ UNCHANGED vars
\* Run: the select after Sync takes the case of stopCh
StopWhileWaiting ==
    /\ ~crashed
    /\ pc["run"] = "wait"
    /\ stopCh
    /\ pc' = [pc EXCEPT !["run"] = "returned"]
    /\ UNCHANGED <<podCache, npCache, chains, ipsets, mu, frame, networkPoliciesInfo,
                   readyForUpdates, epoch, heartbeats, crashed, faults, changes, budget, v1NetworkPolicy,
                   stopCh, cleaned, done, unseen>>

\* the stop signal: stopCh is closed, while the Sync that Run may be about
\* to start is still within the bound on the epochs
StopSignal ==
    /\ ~stopCh
    /\ pc["run"] = "sync" => epoch < budget.epochs
    /\ stopCh' = TRUE
    /\ UNCHANGED <<podCache, npCache, chains, ipsets, mu, pc, frame, networkPoliciesInfo,
                   readyForUpdates, epoch, heartbeats, crashed, faults, changes, budget, v1NetworkPolicy,
                   cleaned, done, unseen>>

\* Cleanup, called once the controller is over, on the kernel it left
Cleanup ==
    /\ pc["run"] = "returned" \/ crashed
    /\ ~cleaned
    /\ \E podFwChains \in Perms(chainsWithPrefix(chains, kubePodFirewallChainPrefix)) :
          LET m == cleanupKernel(Machine(chains, ipsets, 0), podFwChains)
          IN /\ chains' = m.chains
             /\ ipsets' = m.ipsets
    /\ cleaned' = TRUE
    /\ UNCHANGED <<podCache, npCache, mu, pc, frame, networkPoliciesInfo,
                   readyForUpdates, epoch, heartbeats, crashed, faults, changes, budget, v1NetworkPolicy,
                   stopCh, done, unseen>>

Next ==
    \/ \E id \in PodIds : \E status \in PodStatus : PodEvent(id, status)
    \/ \E policy \in PolicyCatalogue : PolicyEvent(policy)
    \/ NamespaceEvent
    \/ \E t \in Handlers : OnUpdate(t)
    \/ \E t \in Threads : SyncBegin(t)
    \/ \E t \in Threads : SyncPolicyChains(t)
    \/ \E t \in Threads : SyncPodFwIngress(t)
    \/ \E t \in Threads : SyncPodFwEgress(t)
    \/ \E t \in Threads : SyncCleanup(t)
    \/ AfterSync
    \/ Tick
    \/ LoopTop

Spec == Init /\ [][Next]_vars

\* the controller alone on caches that do not change, with one more
\* reconcile and one more failure of the driver
InitRecovery ==
    InitState([epochs |-> MaxEpoch + 1, faults |-> MaxFaults + 1, changes |-> 0], TRUE)

NextRecovery ==
    \/ SyncBegin("run")
    \/ SyncPolicyChains("run")
    \/ SyncPodFwIngress("run")
    \/ SyncPodFwEgress("run")
    \/ SyncCleanup("run")
    \/ AfterSync
    \/ Tick
    \/ LoopTop

SpecRecovery == InitRecovery /\ [][NextRecovery]_vars

\* the controller with the caches changing only while a further reconcile
\* is still within the bound on the epochs
NextLive ==
    \/ epoch < budget.epochs /\ \E id \in PodIds : \E status \in PodStatus : PodEvent(id, status)
    \/ epoch < budget.epochs /\ \E policy \in PolicyCatalogue : PolicyEvent(policy)
    \/ epoch < budget.epochs /\ NamespaceEvent
    \/ \E t \in Handlers : OnUpdate(t)
    \/ \E t \in Threads : SyncBegin(t)
    \/ \E t \in Threads : SyncPolicyChains(t)
    \/ \E t \in Threads : SyncPodFwIngress(t)
    \/ \E t \in Threads : SyncPodFwEgress(t)
    \/ \E t \in Threads : SyncCleanup(t)
    \/ AfterSync
    \/ Tick
    \/ LoopTop

\* a step of the loop of Run, or the start of a Sync
RunStep ==
    \/ Tick
    \/ LoopTop
    \/ AfterSync
    \/ \E t \in Threads : SyncBegin(t)

\* a Sync leaves the part it is in: to the next part, or it returns
SyncLeavesPart ==
    /\ ~crashed
    /\ \E t \in Threads :
          /\ pc[t] \in InSync
          /\ \E p \in (InSync \cup {"postok", "posterr", "idle"}) \ {pc[t]} :
                pc' = [pc EXCEPT ![t] = p]

\* the ticker keeps firing, the goroutine of Run keeps running and a free
\* lock is taken by a Sync that waits for it; the driver calls of a Sync
\* return
RunFairness ==
    /\ WF_vars(RunStep)
    /\ WF_pc(SyncLeavesPart)

SpecLive == Init /\ [][NextLive]_vars /\ RunFairness

\* the controller alone on caches that do not change, until the stop signal
\* makes Run return and Cleanup is run.  The loop of Run keeps running and
\* the driver calls of a Sync return; the ticker need not fire
NextShutdown ==
    \/ SyncBegin("run")
    \/ SyncPolicyChains("run")
    \/ SyncPodFwIngress("run")
    \/ SyncPodFwEgress("run")
    \/ SyncCleanup("run")
    \/ AfterSync
    \/ Tick
    \/ LoopTop
    \/ StopWhileWaiting
    \/ StopSignal
    \/ Cleanup

RunToStop ==
    \/ LoopTop
    \/ StopWhileWaiting
    \/ AfterSync
    \/ SyncBegin("run")

ShutdownFairness ==
    /\ WF_vars(RunToStop)
    /\ WF_pc(SyncLeavesPart)

InitShutdown == InitState([epochs |-> MaxEpoch, faults |-> MaxFaults, changes |-> 0], TRUE)

SpecShutdown == InitShutdown /\ [][NextShutdown]_vars /\ ShutdownFairness

\* the controller in either mode (the server has or has not the v1
\* policies), without failures of the driver
InitModes ==
    \E v1 \in BOOLEAN :
        InitState([epochs |-> MaxEpoch, faults |-> 0, changes |-> MaxChanges], v1)

SpecModes == InitModes /\ [][Next]_vars

(***************************************************************************)
(* Policies with named ports and address blocks, each reconciled alone by  *)
(* the controller on caches that do not change.                            *)
(***************************************************************************)
IPBlock(cidr, except) == Some([cidr |-> cidr, except |-> except])

\* ingress to the pods of ns1 from the web pods on the port named http
PolicyNamedFromPods ==
    NetworkPolicy("ns1", "named", Everything, {"Ingress"},
                  <<PolicyRule(<<PolicyPeer(Some({"web"}), Nil, Nil)>>,
                               <<PolicyPort("TCP", NamedPort("http"))>>)>>,
                  <<>>)

\* the same from every source, and from a block
PolicyNamedFromAll ==
    NetworkPolicy("ns1", "namedall", Everything, {"Ingress"},
                  <<PolicyRule(<<>>, <<PolicyPort("TCP", NamedPort("http"))>>)>>,
                  <<>>)

PolicyNamedFromBlock ==
    NetworkPolicy("ns1", "namedblock", Everything, {"Ingress"},
                  <<PolicyRule(<<PolicyPeer(Nil, Nil, IPBlock("10.0.0.0/8", <<>>))>>,
                               <<PolicyPort("TCP", NamedPort("http"))>>)>>,
                  <<>>)

\* a numeric port next to the named one
PolicyNamedAndNumeric ==
    NetworkPolicy("ns1", "mixed", Everything, {"Ingress"},
                  <<PolicyRule(<<PolicyPeer(Some({"web"}), Nil, Nil)>>,
                               <<PolicyPort("TCP", IntPort("80")),
                                 PolicyPort("TCP", NamedPort("http"))>>)>>,
                  <<>>)

\* egress from the web pods to the pods of ns1 on the port named http
PolicyNamedEgress ==
    NetworkPolicy("ns1", "namedout", {"web"}, {"Egress"}, <<>>,
                  <<PolicyRule(<<PolicyPeer(Some(Everything), Nil, Nil)>>,
                               <<PolicyPort("TCP", NamedPort("http"))>>)>>)

\* a port name that no container has
PolicyUnexposed ==
    NetworkPolicy("ns1", "unexposed", Everything, {"Ingress"},
                  <<PolicyRule(<<PolicyPeer(Some({"web"}), Nil, Nil)>>,
                               <<PolicyPort("TCP", NamedPort("metrics"))>>)>>,
                  <<>>)

PolicyUnexposedFromAll ==
    NetworkPolicy("ns1", "unexposedall", Everything, {"Ingress"},
                  <<PolicyRule(<<>>, <<PolicyPort("TCP", NamedPort("metrics"))>>)>>,
                  <<>>)

PolicyUnexposedEgress ==
    NetworkPolicy("ns1", "unexposedout", {"web"}, {"Egress"}, <<>>,
                  <<PolicyRule(<<PolicyPeer(Some(Everything), Nil, Nil)>>,
                               <<PolicyPort("TCP", NamedPort("metrics"))>>)>>)

\* address blocks: every address but a block, a block but every address and
\* a part of it, a block of prefix length 0 written with another address,
\* and a block in a peer that also selects pods
PolicyBlocks ==
    NetworkPolicy("ns1", "blocks", Everything, {"Ingress"},
                  <<PolicyRule(<<PolicyPeer(Nil, Nil, IPBlock("0.0.0.0/0", <<"10.0.0.0/8">>))>>,
                               <<>>),
                    PolicyRule(<<PolicyPeer(Nil, Nil,
                                            IPBlock("172.16.0.0/12",
                                                    <<"0.0.0.0/0", "172.16.1.0/24">>))>>,
                               <<PolicyPort("TCP", IntPort("80"))>>),
                    PolicyRule(<<PolicyPeer(Nil, Nil, IPBlock("10.0.0.0/0", <<>>))>>, <<>>)>>,
                  <<>>)

PolicyBlocksEgress ==
    NetworkPolicy("ns1", "blocksout", {"web"}, {"Egress"}, <<>>,
                  <<PolicyRule(<<PolicyPeer(Nil, Nil, IPBlock("172.16.0.0/12", <<>>)),
                                 PolicyPeer(Some({"db"}), Nil,
                                            IPBlock("192.168.0.0/16", <<"192.168.1.0/24">>))>>,
                               <<>>)>>)

\* ports and no peer: two numeric ports, one of them twice, a protocol with
\* no port, and a named port
PolicyPortsFromAll ==
    NetworkPolicy("ns1", "ports", Everything, {"Ingress"},
                  <<PolicyRule(<<>>,
                               <<PolicyPort("TCP", IntPort("80")),
                                 PolicyPort("UDP", IntPort("53")),
                                 PolicyPort("TCP", NamedPort("http")),
                                 PolicyPort("UDP", Nil),
                                 PolicyPort("TCP", IntPort("80"))>>)>>,
                  <<>>)

RuleCatalogue ==
    {PolicyNamedFromPods, PolicyNamedFromAll, PolicyNamedFromBlock, PolicyNamedAndNumeric,
     PolicyNamedEgress, PolicyUnexposed, PolicyUnexposedFromAll, PolicyUnexposedEgress,
     PolicyBlocks, PolicyBlocksEgress, PolicyPortsFromAll}

InitRules ==
    /\ podCache \in {c \in [PodIds -> PodStatus] :
                        /\ c["a"] \in {"local", "pending"}
                        /\ c["b"] \in {"local", "pending", "remote"}
                        /\ c["c"] = "local"}
    /\ npCache \in {{policy} : policy \in RuleCatalogue}
    /\ InitController([epochs |-> MaxEpoch, faults |-> 0, changes |-> 0], TRUE)

SpecRules == InitRules /\ [][NextRecovery]_vars

(***************************************************************************)
(* A policy that is updated in place: the two rules of it change places.   *)
(***************************************************************************)
\* ingress to the db pods from the web pods on tcp/80 and from the db pods
\* on tcp/8080
PolicyOrdered ==
    NetworkPolicy("ns1", "order", {"db"}, {"Ingress"},
                  <<PolicyRule(<<PolicyPeer(Some({"web"}), Nil, Nil)>>,
                               <<PolicyPort("TCP", IntPort("80"))>>),
                    PolicyRule(<<PolicyPeer(Some({"db"}), Nil, Nil)>>,
                               <<PolicyPort("TCP", IntPort("8080"))>>)>>,
                  <<>>)

PolicyReordered ==
    NetworkPolicy("ns1", "order", {"db"}, {"Ingress"},
                  <<PolicyOrdered.ingress[2], PolicyOrdered.ingress[1]>>, <<>>)

UpdateCatalogue == {PolicyOrdered, PolicyReordered}

\* the informer replaces a policy of the cache by its new version and calls
\* the UpdateFunc of the policy event handler
PolicyUpdate(old, new) ==
    /\ ~crashed
    /\ changes < budget.changes
    /\ pc["np"] = "idle"
    /\ old \in npCache
    /\ new # old /\ new.namespace = old.namespace /\ new.name = old.name
    /\ npCache' = (npCache \ {old}) \cup {new}
    /\ pc' = [pc EXCEPT !["np"] = "called"]
    /\ frame' = Dirtied
    /\ changes' = changes + 1
    /\ unseen' = TRUE
    /\ UNCHANGED <<podCache, chains, ipsets, mu, networkPoliciesInfo, readyForUpdates,
                   epoch, heartbeats, crashed, faults, budget, v1NetworkPolicy, stopCh,
                   cleaned, done>>

InitUpdate ==
    /\ podCache \in InitPodCaches
    /\ npCache = {PolicyOrdered}
    /\ InitController([epochs |-> MaxEpoch, faults |-> MaxFaults, changes |-> MaxChanges],
                      TRUE)

NextUpdate ==
    \/ \E old, new \in UpdateCatalogue : PolicyUpdate(old, new)
    \/ OnUpdate("np")
    \/ \E t \in {"run", "np"} : SyncBegin(t)
    \/ \E t \in {"run", "np"} : SyncPolicyChains(t)
    \/ \E t \in {"run", "np"} : SyncPodFwIngress(t)
    \/ \E t \in {"run", "np"} : SyncPodFwEgress(t)
    \/ \E t \in {"run", "np"} : SyncCleanup(t)
    \/ AfterSync
    \/ Tick
    \/ LoopTop

SpecUpdate == InitUpdate /\ [][NextUpdate]_vars



(***************************************************************************)
(* What the filter table does with a packet.  A packet here is new (not    *)
(* established or related) and its source is not an address of the node.   *)
(***************************************************************************)
Packet(src, dst, proto, dport, bridged) ==
    [src |-> src, dst |-> dst, proto |-> proto, dport |-> dport, bridged |-> bridged,
     srcType |-> "UNICAST", ctstate |-> "NEW"]

InSet(sets, set, ip) ==
    /\ set \in DOMAIN sets
    /\ \E entry \in sets[set].entries : entry[1] = ip

RuleMatches(sets, rule, pk) ==
    /\ rule.physdev => pk.bridged
    /\ rule.srcType = "" \/ rule.srcType = pk.srcType
    /\ rule.ctstate = ""
    /\ rule.s = "" \/ rule.s = pk.src
    /\ rule.d = "" \/ rule.d = pk.dst
    /\ rule.srcSet = NoSet \/ InSet(sets, rule.srcSet, pk.src)
    /\ rule.dstSet = NoSet \/ InSet(sets, rule.dstSet, pk.dst)
    /\ rule.proto = "" \/ rule.proto = pk.proto
    /\ rule.dport = "" \/ rule.dport = pk.dport

\* the verdict of a list of rules: ACCEPT and REJECT end the traversal,
\* NFLOG goes on, a jump runs the chain and goes on when it returns
RECURSIVE Traverse(_, _, _, _)
Traverse(table, sets, rules, pk) ==
    IF rules = <<>> THEN "RETURN"
    ELSE LET rule == Head(rules)
         IN IF ~RuleMatches(sets, rule, pk) \/ rule.j = NFLOG
            THEN Traverse(table, sets, Tail(rules), pk)
            ELSE IF rule.j = ACCEPT THEN "ACCEPT"
            ELSE IF rule.j = REJECT THEN "REJECT"
            ELSE LET verdict == Traverse(table, sets, table[rule.j], pk)
                 IN IF verdict = "RETURN"
                    THEN Traverse(table, sets, Tail(rules), pk)
                    ELSE verdict

\* a forwarded packet passes when FORWARD does not reject it (the policy of
\* the built-in chain is ACCEPT)
Forwarded(table, sets, pk) == Traverse(table, sets, table[FORWARD], pk) # "REJECT"

(***************************************************************************)
(* What the policies say of a packet, read from the policy objects.        *)
(***************************************************************************)
ExternalIP == "8.8.8.8"
PacketSpace ==
    LET ips == {"10.0.0.1", "10.0.0.2", "10.0.0.3", ExternalIP}
    IN {Packet(src, dst, "TCP", dport, bridged) :
           src \in ips, dst \in ips \ {ExternalIP}, dport \in {"80", "8080"},
           bridged \in BOOLEAN}

\* the running pod of this node that has the address, if any
LocalPodsAt(cache, ip) ==
    {pod \in PodsOf(cache) : pod.podIP = ip /\ ip # "" /\ pod.hostIP = NodeIP}

Selects(policy, pod) ==
    pod.namespace = policy.namespace /\ pod.label \in policy.podSelector

IngressKind(policy) == policyTypeOf(policy) \in {"ingress", "both"}
EgressKind(policy) == policyTypeOf(policy) \in {"egress", "both"}

\* a peer of a rule covers an address (the catalogue has pod selectors only)
PeerCovers(cache, policy, peer, ip) ==
    /\ peer.podSelector # Nil
    /\ \E pod \in PodsOf(cache) :
          /\ pod.podIP = ip
          /\ pod.namespace = policy.namespace
          /\ pod.label \in peer.podSelector[1]

\* a port of a rule covers the destination port of the packet
PortCovers(port, pk) ==
    /\ port.protocol = pk.proto
    /\ port.port # Nil => (port.port[1].type = "int" /\ port.port[1].val = pk.dport)

RuleAllows(cache, policy, rule, peerIp, pk) ==
    /\ rule.peers = <<>> \/ \E i \in DOMAIN rule.peers :
                               PeerCovers(cache, policy, rule.peers[i], peerIp)
    /\ rule.ports = <<>> \/ \E i \in DOMAIN rule.ports : PortCovers(rule.ports[i], pk)

\* the packet is permitted in every direction in which an endpoint of it is
\* a governed pod of this node
IngressPermitted(cache, policies, pk) ==
    \A pod \in LocalPodsAt(cache, pk.dst) :
        (\E policy \in policies : IngressKind(policy) /\ Selects(policy, pod))
        => \E policy \in policies :
              /\ IngressKind(policy) /\ Selects(policy, pod)
              /\ \E i \in DOMAIN policy.ingress :
                    RuleAllows(cache, policy, policy.ingress[i], pk.src, pk)

EgressPermitted(cache, policies, pk) ==
    \A pod \in LocalPodsAt(cache, pk.src) :
        (\E policy \in policies : EgressKind(policy) /\ Selects(policy, pod))
        => \E policy \in policies :
              /\ EgressKind(policy) /\ Selects(policy, pod)
              /\ \E i \in DOMAIN policy.egress :
                    RuleAllows(cache, policy, policy.egress[i], pk.dst, pk)

(***************************************************************************)
(* The claims.  A reconcile is clean when Sync returned nil, no call of    *)
(* the driver failed in it and the caches did not change while it ran.     *)
(***************************************************************************)
CleanReturns == {i \in DOMAIN done : done[i].clean}

\* C1: after a clean reconcile the filter table forwards a new packet from
\* a source that is not local to the node only if the policies permit it in
\* each direction in which an endpoint is a governed local pod: an ACCEPT in
\* the chain of the source pod does not bypass the ingress policies of the
\* destination pod, nor the other way round.
C1_OnlyPermittedTrafficPasses ==
    \A i \in CleanReturns : \A pk \in PacketSpace :
        Forwarded(done[i].chains, done[i].ipsets, pk)
        => /\ IngressPermitted(done[i].pods, done[i].nps, pk)
           /\ EgressPermitted(done[i].pods, done[i].nps, pk)

\* C2: after every Sync that returned nil, whatever calls of the driver
\* failed in it, the filter table holds no chain under the per-policy or
\* the per-pod prefix other than the chains of the active sets that this
\* Sync built.
C2_NoStaleChainsAfterNil ==
    \A i \in DOMAIN done :
        done[i].ok =>
            /\ stalePolicyChains(DOMAIN done[i].chains, done[i].activePolicyChains) = {}
            /\ stalePodFwChains(DOMAIN done[i].chains, done[i].activePodFwChains) = {}

\* every set name that the code derives from a policy
PolicySetNames(policy) ==
    {policySourcePodIpSetName(policy.namespace, policy.name),
     policyDestinationPodIpSetName(policy.namespace, policy.name)}
    \cup UNION {{policyIndexedSourcePodIpSetName(policy.namespace, policy.name, i - 1),
                 policyIndexedSourceIpBlockIpSetName(policy.namespace, policy.name, i - 1)}
                \cup {policyIndexedIngressNamedPortIpSetName(policy.namespace, policy.name,
                                                             i - 1, k - 1) :
                         k \in DOMAIN policy.ingress[i].ports} :
                i \in DOMAIN policy.ingress}
    \cup UNION {{policyIndexedDestinationPodIpSetName(policy.namespace, policy.name, i - 1),
                 policyIndexedDestinationIpBlockIpSetName(policy.namespace, policy.name,
                                                          i - 1)}
                \cup {policyIndexedEgressNamedPortIpSetName(policy.namespace, policy.name,
                                                            i - 1, k - 1) :
                         k \in DOMAIN policy.egress[i].ports} :
                i \in DOMAIN policy.egress}

\* C3: after every Sync that returned nil no set under KUBE-SRC- or
\* KUBE-DST- exists that this Sync did not add to its active sets; and when
\* a policy that existed at one Sync is gone at the next Sync that returns
\* nil, none of the sets of that policy exists after it.
C3_NoStaleSetsAfterNil ==
    \A i \in DOMAIN done :
        done[i].ok =>
            /\ \A set \in DOMAIN done[i].ipsets :
                  (HasPrefix(set, kubeSourceIpSetPrefix)
                   \/ HasPrefix(set, kubeDestinationIpSetPrefix))
                  => set \in done[i].activePolicyIpSets
            /\ i = 2 => \A policy \in done[1].nps \ done[2].nps :
                           PolicySetNames(policy) \cap DOMAIN done[2].ipsets = {}

\* a policy whose sets the kernel held after one Sync was deleted before the
\* next Sync, which returned nil
C3_PolicyDeletedBetweenSyncs ==
    /\ Len(done) = 2
    /\ done[2].ok
    /\ \E policy \in done[1].nps \ done[2].nps :
          PolicySetNames(policy) \cap DOMAIN done[1].ipsets # {}

\* the pods of this node that have an address and that a policy of their
\* namespace selects, for ingress and for egress
IngressEnabled(policies, pod) ==
    \E policy \in policies : IngressKind(policy) /\ Selects(policy, pod)
EgressEnabled(policies, pod) ==
    \E policy \in policies : EgressKind(policy) /\ Selects(policy, pod)

LocalPods(cache) == {pod \in PodsOf(cache) : pod.hostIP = NodeIP /\ pod.podIP # ""}

SelectedLocalPods(cache, policies) ==
    {pod \in LocalPods(cache) : IngressEnabled(policies, pod) \/ EgressEnabled(policies, pod)}

PodChainsIn(table) == {chain \in DOMAIN table : HasPrefix(chain, kubePodFirewallChainPrefix)}

\* C4: after a clean reconcile the per-pod chains are exactly one chain for
\* each pod that is local, has an address and is selected by an ingress-kind
\* or egress-kind policy of its namespace: none for an unselected pod, one
\* (not two) for a pod selected in both directions.
C4_PodChainsExactlyForSelectedLocalPods ==
    \A i \in CleanReturns :
        LET selected == SelectedLocalPods(done[i].pods, done[i].nps)
        IN /\ PodChainsIn(done[i].chains) =
                 {podFirewallChainName(pod.namespace, pod.name, done[i].version) :
                     pod \in selected}
           /\ Cardinality(PodChainsIn(done[i].chains)) = Cardinality(selected)

\* a clean reconcile with a local pod selected in both directions and a
\* local pod that no policy selects
C4_PodSelectedBothWays ==
    \E i \in CleanReturns :
        /\ \E pod \in LocalPods(done[i].pods) :
              IngressEnabled(done[i].nps, pod) /\ EgressEnabled(done[i].nps, pod)
        /\ LocalPods(done[i].pods) \ SelectedLocalPods(done[i].pods, done[i].nps) # {}

\* the chain holds a jump to the target with this source, destination and
\* physdev match
HoldsJump(rules, s, d, bridged, target) ==
    \E k \in DOMAIN rules :
        /\ rules[k].s = s /\ rules[k].d = d
        /\ rules[k].physdev = bridged /\ rules[k].j = target

\* C5: after a clean reconcile, for every local pod with an address, (i) its
\* chain jumps to the chain of the current version of every policy that
\* selects it, (ii) when it is ingress-enabled FORWARD holds the jump on its
\* destination address and the bridged variant and OUTPUT holds the jump,
\* (iii) when it is egress-enabled FORWARD, OUTPUT and INPUT hold the jump on
\* its source address and FORWARD the bridged variant.
C5_JumpsInstalled ==
    \A i \in CleanReturns : \A pod \in LocalPods(done[i].pods) :
        LET table == done[i].chains
            chain == podFirewallChainName(pod.namespace, pod.name, done[i].version)
        IN /\ \A policy \in done[i].nps :
                 Selects(policy, pod)
                 => /\ chain \in DOMAIN table
                    /\ HoldsJump(table[chain], "", "", FALSE,
                                 networkPolicyChainName(policy.namespace, policy.name,
                                                        done[i].version))
           /\ IngressEnabled(done[i].nps, pod)
              => /\ HoldsJump(table[FORWARD], "", pod.podIP, FALSE, chain)
                 /\ HoldsJump(table[FORWARD], "", pod.podIP, TRUE, chain)
                 /\ HoldsJump(table[OUTPUT], "", pod.podIP, FALSE, chain)
           /\ EgressEnabled(done[i].nps, pod)
              => /\ HoldsJump(table[FORWARD], pod.podIP, "", FALSE, chain)
                 /\ HoldsJump(table[OUTPUT], pod.podIP, "", FALSE, chain)
                 /\ HoldsJump(table[INPUT], pod.podIP, "", FALSE, chain)
                 /\ HoldsJump(table[FORWARD], pod.podIP, "", TRUE, chain)

\* a clean reconcile with an ingress-enabled and an egress-enabled local pod
C5_BothKindsOfPodEnabled ==
    \E i \in CleanReturns :
        /\ \E pod \in LocalPods(done[i].pods) : IngressEnabled(done[i].nps, pod)
        /\ \E pod \in LocalPods(done[i].pods) : EgressEnabled(done[i].nps, pod)

\* C6: at most one thread is in the body of Sync at any time, whichever of
\* the periodic loop and the event callbacks started it, and that thread
\* holds the mutex.
C6_OneSyncAtATime ==
    /\ Cardinality({t \in Threads : pc[t] \in InSync}) <= 1
    /\ \A t \in Threads : pc[t] \in InSync => mu = t

\* a callback runs the body of Sync while the periodic loop waits for the
\* mutex
C6_LoopWaitsForCallback ==
    /\ pc["run"] = "sync"
    /\ \E t \in Handlers : pc[t] \in InSync

(***************************************************************************)
(* The kernel up to the version in the names of the chains.                *)
(***************************************************************************)
\* the namespace and name pairs of the pods and policies of the model
NamedObjects ==
    {<<PodObject(id, "local").namespace, PodObject(id, "local").name>> : id \in PodIds}
    \cup {<<policy.namespace, policy.name>> : policy \in PolicyCatalogue}

\* the name that a chain of version v1 has under version v2
RenameChain(chain, v1, v2) ==
    IF \E x \in NamedObjects : chain = podFirewallChainName(x[1], x[2], v1)
    THEN LET x == CHOOSE y \in NamedObjects : chain = podFirewallChainName(y[1], y[2], v1)
         IN podFirewallChainName(x[1], x[2], v2)
    ELSE IF \E x \in NamedObjects : chain = networkPolicyChainName(x[1], x[2], v1)
    THEN LET x == CHOOSE y \in NamedObjects : chain = networkPolicyChainName(y[1], y[2], v1)
         IN networkPolicyChainName(x[1], x[2], v2)
    ELSE chain

RenameTable(table, v1, v2) ==
    [chain \in {RenameChain(c, v1, v2) : c \in DOMAIN table} |->
        LET old == CHOOSE c \in DOMAIN table : RenameChain(c, v1, v2) = chain
        IN [k \in DOMAIN table[old] |->
               [table[old][k] EXCEPT !.j = RenameChain(@, v1, v2),
                                     !.commentChain = RenameChain(@, v1, v2)]]]

\* how many times each rule is in a chain
RuleCounts(rules) ==
    [rule \in Range(rules) |-> Cardinality({k \in DOMAIN rules : rules[k] = rule})]

\* the same chains, each with the same rules the same number of times
SameTable(t1, t2) ==
    /\ DOMAIN t1 = DOMAIN t2
    /\ \A chain \in DOMAIN t1 : RuleCounts(t1[chain]) = RuleCounts(t2[chain])

\* C7: two clean reconciles in succession on the same pods and policies
\* leave the same kernel up to the version in the chain names: the same sets
\* with the same entries, the same chains with the same rules, and in
\* FORWARD, OUTPUT and INPUT the same rules the same number of times.
C7_SecondReconcileChangesNothing ==
    (/\ Len(done) = 2
     /\ done[1].clean /\ done[2].clean
     /\ done[1].pods = done[2].pods /\ done[1].nps = done[2].nps)
    => /\ done[1].ipsets = done[2].ipsets
       /\ SameTable(RenameTable(done[1].chains, done[1].version, done[2].version),
                    done[2].chains)

\* two clean reconciles of different versions in succession on the same
\* input, with pod chains in the kernel
C7_TwoCleanReconciles ==
    /\ Len(done) = 2
    /\ done[1].clean /\ done[2].clean
    /\ done[1].pods = done[2].pods /\ done[1].nps = done[2].nps
    /\ done[1].version # done[2].version
    /\ PodChainsIn(done[1].chains) # {}

\* what a reconcile of the version and model of a returned Sync leaves when
\* it runs without failure on a kernel that holds nothing of the controller
OnCleanKernel(e) ==
    LET pods == PodsOf(e.pods)
        ingressPods == getIngressNetworkPolicyEnabledPods(pods, e.info, NodeIP)
        egressPods == getEgressNetworkPolicyEnabledPods(pods, e.info, NodeIP)
        m1 == ExecAll(Machine(EmptyChains, EmptyIpSets, 0),
                      syncNetworkPolicyChains(e.info, e.version))
        m2 == ExecAll(m1, syncPodFirewallChainsIngress(ingressPods,
                                                       SetToSeq(DOMAIN ingressPods),
                                                       e.info, e.version))
        m3 == ExecAll(m2, syncPodFirewallChainsEgress(egressPods,
                                                      SetToSeq(DOMAIN egressPods),
                                                      e.info, e.version))
    IN cleanupStaleRules(m3, activePolicyChainsOf(e.info, e.version),
                         activePodFwChainsOf(ingressPods, e.version)
                             \cup activePodFwChainsOf(egressPods, e.version),
                         activePolicyIpSetsOf(e.info, e.version))

\* C8: the first clean reconcile after reconciles that aborted leaves the
\* kernel that the same reconcile leaves on a clean kernel: nothing of the
\* aborted versions is left.
C8_CleanReconcileRecovers ==
    (Len(done) = 2 /\ ~done[1].ok /\ done[2].clean)
    => /\ done[2].ipsets = OnCleanKernel(done[2]).ipsets
       /\ SameTable(done[2].chains, OnCleanKernel(done[2]).chains)

\* the third reconcile is clean after the first two aborted, the second one
\* leaving policy chains of both versions in the kernel
C8_CleanAfterTwoAborted ==
    /\ Len(done) = 2 /\ ~done[1].ok /\ done[2].clean
    /\ faults = 2 /\ epoch = 3
    /\ \A v \in {1, 2} : \E x \in NamedObjects :
          networkPolicyChainName(x[1], x[2], Itoa(v)) \in DOMAIN done[1].chains

\* the kinds of rule of a pod chain
IsLocalAccept(rule) == rule.srcType = "LOCAL" /\ rule.j = ACCEPT
IsStatefulAccept(rule) == rule.ctstate = "RELATED,ESTABLISHED" /\ rule.j = ACCEPT
IsJumpTo(rule, chain) == rule.j = chain

\* the ingress-kind policies without ingress rules of a returned Sync, each
\* with a local pod it selects
DenyAllCases(e) ==
    {<<policy, pod>> \in e.nps \X LocalPods(e.pods) :
        IngressKind(policy) /\ policy.ingress = <<>> /\ Selects(policy, pod)}

\* C9 as claimed: for an ingress-kind policy without ingress rules that
\* selects a local pod, after a clean reconcile the policy chain exists and
\* is empty and the chain of the pod holds only the LOCAL-source ACCEPT, the
\* established/related ACCEPT, the NFLOG rule and the final REJECT: no jump
\* into the policy chain.
C9_DenyAllChainHasNoJump ==
    \A i \in CleanReturns : \A case \in DenyAllCases(done[i]) :
        LET table == done[i].chains
            policyChain == networkPolicyChainName(case[1].namespace, case[1].name,
                                                  done[i].version)
            podChain == podFirewallChainName(case[2].namespace, case[2].name,
                                             done[i].version)
        IN /\ policyChain \in DOMAIN table /\ table[policyChain] = <<>>
           /\ podChain \in DOMAIN table
           /\ \A k \in DOMAIN table[podChain] :
                 \/ IsLocalAccept(table[podChain][k])
                 \/ IsStatefulAccept(table[podChain][k])
                 \/ table[podChain][k].j \in {NFLOG, REJECT}
           /\ \A k \in DOMAIN table[podChain] : ~IsJumpTo(table[podChain][k], policyChain)

\* C9 as the code has it: the policy chain exists and is empty; the chain of
\* the pod holds the established/related ACCEPT, the LOCAL-source ACCEPT and
\* one jump for each policy that selects the pod, the jump into the empty
\* policy chain among them, and ends with the NFLOG rule and the REJECT.
C9_DenyAllChainJumpsToEmptyPolicyChain ==
    \A i \in CleanReturns : \A case \in DenyAllCases(done[i]) :
        LET table == done[i].chains
            policyChain == networkPolicyChainName(case[1].namespace, case[1].name,
                                                  done[i].version)
            podChain == podFirewallChainName(case[2].namespace, case[2].name,
                                             done[i].version)
            selecting == {policy \in done[i].nps : Selects(policy, case[2])}
            jumps == {networkPolicyChainName(policy.namespace, policy.name,
                                             done[i].version) : policy \in selecting}
        IN /\ policyChain \in DOMAIN table /\ table[policyChain] = <<>>
           /\ podChain \in DOMAIN table
           /\ LET rules == table[podChain]
                  n == Len(rules)
              IN /\ n = Cardinality(selecting) + 4
                 /\ rules[n].j = REJECT
                 /\ rules[n - 1].j = NFLOG
                 /\ \E k \in 1 .. n - 2 : IsLocalAccept(rules[k])
                 /\ \E k \in 1 .. n - 2 : IsStatefulAccept(rules[k])
                 /\ {rules[k].j : k \in 1 .. n - 2} \ {ACCEPT} = jumps
                 /\ \E k \in 1 .. n - 2 : IsJumpTo(rules[k], policyChain)

\* a clean reconcile with a policy that denies all ingress to a local pod
C9_DenyAllPolicySelectsLocalPod ==
    \E i \in CleanReturns : DenyAllCases(done[i]) # {}

\* the pods that were local policy targets at the first of two consecutive
\* clean reconciles and are not local at the second
MigratedPods ==
    IF Len(done) = 2 /\ done[1].clean /\ done[2].clean
    THEN {id \in PodIds :
            /\ done[1].pods[id] = "local"
            /\ PodObject(id, "local") \in SelectedLocalPods(done[1].pods, done[1].nps)
            /\ done[2].pods[id] \notin {"local", "relabelled"}}
    ELSE {}

\* nothing of the pod is left in the filter table: no chain of the pod of
\* either version and no rule of a built-in chain on its address
NothingLeftOf(pod) ==
    LET table == done[2].chains
    IN /\ \A i \in {1, 2} :
            podFirewallChainName(pod.namespace, pod.name, done[i].version) \notin DOMAIN table
       /\ \A chain \in BuiltinChains : \A k \in DOMAIN table[chain] :
            table[chain][k].s # pod.podIP /\ table[chain][k].d # pod.podIP

\* a chain of the policy, of the version of either reconcile, is in the table
PolicyChainRemains(policy) ==
    \E i \in {1, 2} :
        networkPolicyChainName(policy.namespace, policy.name, done[i].version)
            \in DOMAIN done[2].chains

\* C10 as claimed: when a pod that was a local policy target at one clean
\* reconcile is not local at the next, no chain of the pod and no top-level
\* rule for it remains, and the chain of a policy that selected it remains
\* exactly when some other pod with an address is still a target of the policy.
C10_PolicyChainRemainsIffOtherTarget ==
    \A id \in MigratedPods :
        LET pod == PodObject(id, "local")
        IN /\ NothingLeftOf(pod)
           /\ \A policy \in {p \in done[1].nps : Selects(p, pod)} :
                PolicyChainRemains(policy)
                    <=> /\ policy \in done[2].nps
                        /\ \E other \in PodsOf(done[2].pods) :
                              /\ other.podIP # "" /\ other # pod
                              /\ Selects(policy, other)

\* C10 as the code has it: no chain of the pod and no top-level rule for it
\* remains; the chain of a policy that selected it is there under the name
\* of the new version exactly when the policy is still in the cache, with or
\* without targets, and its chain of the old version is gone.
C10_PolicyChainRemainsIffPolicyExists ==
    \A id \in MigratedPods :
        LET pod == PodObject(id, "local")
        IN /\ NothingLeftOf(pod)
           /\ \A policy \in {p \in done[1].nps : Selects(p, pod)} :
                /\ networkPolicyChainName(policy.namespace, policy.name, done[2].version)
                       \in DOMAIN done[2].chains  <=>  policy \in done[2].nps
                /\ networkPolicyChainName(policy.namespace, policy.name, done[1].version)
                       \notin DOMAIN done[2].chains

\* a pod that had its chain after one clean reconcile is gone at the next
C10_TargetPodGone ==
    \E id \in MigratedPods :
        podFirewallChainName(PodObject(id, "local").namespace, PodObject(id, "local").name,
                             done[1].version) \in DOMAIN done[1].chains

PolicyChainsIn(table) ==
    {chain \in DOMAIN table : HasPrefix(chain, kubeNetworkPolicyChainPrefix)}

\* C11: after a clean reconcile the per-policy chains of the filter table
\* are exactly the chains named from the namespace, the name and the version
\* of the reconcile for the policies of the model it built, one for each
\* policy, with or without targets, and no other per-policy chain.
C11_OnePolicyChainPerPolicy ==
    \A i \in CleanReturns :
        LET expected == {networkPolicyChainName(done[i].info[k].namespace,
                                                done[i].info[k].name, done[i].version) :
                            k \in DOMAIN done[i].info}
        IN /\ PolicyChainsIn(done[i].chains) = expected
           /\ Cardinality(expected) = Len(done[i].info)

\* a clean reconcile with a policy that has no target at all
C11_PolicyWithoutTarget ==
    \E i \in CleanReturns : \E k \in DOMAIN done[i].info :
        /\ DOMAIN done[i].info[k].targetPods = {}
        /\ Len(done[i].info) > 1

\* C12: readyForUpdates is set only when a reconcile has returned nil: a
\* periodic reconcile that fails leaves it false.
C12_ReadyOnlyAfterSuccess ==
    readyForUpdates => \E i \in DOMAIN done : done[i].ok

\* C13: while readyForUpdates is false no event callback is in Sync or has
\* run one: every callback that was called returned at once, and every
\* reconcile that touched the kernel was one of the periodic loop.
C13_CallbacksDoNothingBeforeReady ==
    ~readyForUpdates =>
        /\ \A t \in Handlers : pc[t] \in {"idle", "called"} /\ mu # t
        /\ \A i \in DOMAIN done : done[i].thread = "run"

\* a policy event was delivered while the first reconcile of the loop had
\* not returned, and its callback has returned
C13_CallbackReturnedBeforeReady ==
    /\ ~readyForUpdates
    /\ npCache \notin InitNpCaches
    /\ pc["np"] = "idle"
    /\ pc["run"] \in InSync

\* C14: the periodic loop publishes no heartbeat for an iteration whose
\* reconcile fails: as long as every reconcile of the loop has failed, no
\* heartbeat has been sent.
C14_NoHeartbeatWhileReconcilesFail ==
    (/\ pc["run"] \in {"posterr", "wait"}
     /\ done # <<>>
     /\ \A i \in DOMAIN done : done[i].thread = "run" /\ ~done[i].ok)
        => heartbeats = 0

\* the kernel a returned Sync started from: what the Sync that returned
\* before it left, or the kernel of Init for the first Sync
HasPrior(i) == i > 1 \/ done[i].version = Itoa(1)
PriorChains(i) == IF i > 1 THEN done[i - 1].chains ELSE EmptyChains
PriorIpSets(i) == IF i > 1 THEN done[i - 1].ipsets ELSE EmptyIpSets

\* nothing that was in the kernel is gone: every chain with every rule it
\* had, every set
NothingDeleted(i) ==
    /\ \A chain \in DOMAIN PriorChains(i) :
          /\ chain \in DOMAIN done[i].chains
          /\ Range(PriorChains(i)[chain]) \subseteq Range(done[i].chains[chain])
    /\ DOMAIN PriorIpSets(i) \subseteq DOMAIN done[i].ipsets

BuildOps == {"NewChain", "EnsureRule", "AppendUnique"}

SetOps == {"Create", "Refresh"}

C17_ModelBuildFailureAborts ==
    \A i \in DOMAIN done :
        ("ListPods" \in done[i].failed /\ HasPrior(i)) =>
            /\ ~done[i].ok
            /\ done[i].chains = PriorChains(i)
            /\ done[i].ipsets = PriorIpSets(i)

CleanupOps == {"Save", "ListChains", "List", "Delete", "ClearChain", "DeleteChain", "Destroy"}

\* the rules of a sequence that jump to one of the chains, in their order
JumpsTo(rules, targets) == SelectSeq(rules, LAMBDA rule : rule.j \in targets)

\* the chains the reconcile recorded as active, with their rules, and the
\* top-level jumps to its active pod chains are what they were when the
\* cleanup began
ActiveUntouched(e) ==
    /\ \A chain \in (e.activePolicyChains \cup e.activePodFwChains) \cap DOMAIN e.before :
          chain \in DOMAIN e.chains /\ e.chains[chain] = e.before[chain]
    /\ \A chain \in BuiltinChains :
          JumpsTo(e.chains[chain], e.activePodFwChains)
              = JumpsTo(e.before[chain], e.activePodFwChains)

\* C18: a reconcile whose cleanup failed at some call returned an error, and
\* left every active chain with its rules and every top-level jump to an
\* active pod chain as they were.
C18_CleanupFailureKeepsActiveRules ==
    \A i \in DOMAIN done :
        (done[i].part = "cleanup" /\ done[i].failed \cap CleanupOps # {}) =>
            ~done[i].ok /\ ActiveUntouched(done[i])

\* C19: the pod cache as the two lookups of syncPodFirewallChains read it is
\* the pod cache the model of the reconcile was built from.
C19_OneSnapshotPerReconcile ==
    \A i \in DOMAIN done :
        /\ done[i].ingressPods # <<>> => done[i].ingressPods = done[i].pods
        /\ done[i].egressPods # <<>> => done[i].egressPods = done[i].pods

\* C20: every change to the pod, policy or namespace caches (one delivered
\* while a reconcile runs, one delivered before readyForUpdates is set and a
\* pod update the handler filters out included) is eventually followed by a
\* reconcile that starts after the change
C20_ChangeLeadsToReconcile == unseen ~> ~unseen

\* the same, for as long as glog.Fatalf has not ended the process
ChangeLeadsToReconcileUnlessExit == unseen ~> (~unseen \/ crashed)


\* C21: once the stop signal is raised the loop of Run eventually returns
\* (or the process has ended), without the ticker having to fire again; it
\* returns only from between two iterations, never out of a reconcile in
\* progress, and once it has returned no reconcile starts
C21_StopEndsLoopBetweenIterations ==
    /\ stopCh ~> (pc["run"] = "returned" \/ crashed)
    /\ [][pc["run"] # "returned" /\ pc'["run"] = "returned"
             => stopCh /\ pc["run"] \in {"top", "wait"} /\ mu # "run"]_vars
    /\ [][pc["run"] = "returned" => pc'["run"] = "returned" /\ epoch' = epoch]_vars

C21_RunReturnedAfterReconcile == stopCh /\ pc["run"] = "returned" /\ done # <<>>

\* the rules of a top-level chain whose text names a pod chain
PodFwReferencesIn(chain) ==
    {i \in DOMAIN chains[chain] :
        RuleContainsPrefix(chains[chain][i], kubePodFirewallChainPrefix)}

\* C22: after Cleanup no rule of FORWARD, OUTPUT or INPUT names a chain
\* with the prefix of the pod chains
C22_NoPodFwReferenceAfterCleanup ==
    cleaned => \A chain \in BuiltinChains : PodFwReferencesIn(chain) = {}

\* the same for the two chains that Cleanup lists
NoPodFwReferenceInForwardAndOutput ==
    cleaned => \A chain \in {FORWARD, OUTPUT} : PodFwReferencesIn(chain) = {}

\* what the controller owns in the kernel: the chains and the sets of its
\* four families of names
OwnChains == chainsWithPrefix(chains, kubePodFirewallChainPrefix) \cup chainsWithPrefix(chains, kubeNetworkPolicyChainPrefix)
OwnIpSets == {set \in DOMAIN ipsets : HasPrefix(set, kubeSourceIpSetPrefix) \/ HasPrefix(set, kubeDestinationIpSetPrefix)}

\* C23: after Cleanup, from whatever a reconcile left behind, no chain of
\* the pod or policy family and no set of the source or destination family
\* exists
C23_NothingOwnedAfterCleanup == cleaned => OwnChains = {} /\ OwnIpSets = {}

\* the same when the controller left no pod with an egress policy on the
\* node, that is no jump from INPUT
NothingOwnedAfterCleanupWithoutInputJump ==
    [][~cleaned /\ cleaned' /\ PodFwReferencesIn(INPUT) = {} => OwnChains' = {} /\ OwnIpSets' = {}]_vars

\* pod.Status.Phase of a pod that exists
PodPhase(status) == IF status = "pending" THEN "Pending" ELSE "Running"

\* the update events of a step: the pods that exist before and after it and
\* whose object changed
UpdatedPods == {id \in PodIds : podCache[id] # "absent" /\ podCache'[id] # "absent" /\ podCache'[id] # podCache[id]}

PhaseOrAddressDiffers(id, old, new) ==
    \/ PodPhase(old) # PodPhase(new)
    \/ PodObject(id, old).podIP # PodObject(id, new).podIP

\* C24: the update of a pod is handed to OnPodUpdate exactly when the phase
\* or the address of the pod differs between the old and the new object,
\* and OnPodUpdate calls Sync exactly when readyForUpdates is set; any
\* other update (of the label, of the host address) starts no reconcile
C24_PodUpdateStartsReconcileIffChanged ==
    [][/\ \A id \in UpdatedPods :
             pc'["pod"] = "called" <=> PhaseOrAddressDiffers(id, podCache[id], podCache'[id])
       /\ pc["pod"] = "called" /\ pc'["pod"] # "called"
             => (pc'["pod"] = "sync" <=> readyForUpdates)
       /\ pc["pod"] # "sync" /\ pc'["pod"] = "sync" => pc["pod"] = "called"]_vars

\* a pod was given another label while readyForUpdates was set, the update
\* was dropped and no reconcile has started since
C24_LabelUpdateDropped ==
    \E id \in PodIds : podCache[id] = "relabelled" /\ readyForUpdates /\ unseen /\ pc["pod"] = "idle"

\* C25: with v1NetworkPolicy set, no namespace event starts a reconcile,
\* whatever readyForUpdates is; in the legacy mode a namespace event starts
\* one exactly when readyForUpdates is set
C25_NamespaceEventsStartReconcileInLegacyModeOnly ==
    /\ [][pc["ns"] = "called" /\ pc'["ns"] # "called"
             => (pc'["ns"] = "sync" <=> ~v1NetworkPolicy /\ readyForUpdates)]_vars
    /\ [](v1NetworkPolicy => pc["ns"] \in {"idle", "called"})
    /\ [](\A i \in DOMAIN done : done[i].thread = "ns" => ~v1NetworkPolicy)

\* in the legacy mode a namespace event has started a reconcile, which
\* returned
C25_NamespaceReconcileInLegacyMode ==
    ~v1NetworkPolicy /\ \E i \in DOMAIN done : done[i].thread = "ns"

\* the pods with an address that a policy selects, and those its peers cover
TargetsOf(cache, policy) ==
    {pod \in PodsOf(cache) : Selects(policy, pod) /\ pod.podIP # ""}

PeerPodsIn(cache, policy, rule) ==
    {pod \in PodsOf(cache) :
        /\ pod.podIP # ""
        /\ \E n \in DOMAIN rule.peers : PeerCovers(cache, policy, rule.peers[n], pod.podIP)}

\* the numeric ports on which pods expose a port name, and the addresses of
\* the pods that expose it on one of them
ResolvedPorts(pods, port) ==
    {pt.containerPort : pt \in {x \in UNION {pod.ports : pod \in pods} :
                                   x.name = port.port[1].val /\ x.protocol = port.protocol}}

ExposingAt(pods, port, n) ==
    {pod.podIP : pod \in {x \in pods :
                             \E pt \in x.ports : /\ pt.name = port.port[1].val
                                                 /\ pt.protocol = port.protocol
                                                 /\ pt.containerPort = n}}

NamedEntries(rule) ==
    {n \in DOMAIN rule.ports :
        rule.ports[n].port # Nil /\ rule.ports[n].port[1].type = "string"}

\* the numbers a named-port set of a rule may have: one per numeric port to
\* which a port of the rule may resolve
AllContainerPorts == UNION {PodObject(id, "local").ports : id \in PodIds}
NamedPortNos(rule) == 0 .. Len(rule.ports) * Cardinality(AllContainerPorts)

\* the source cases of an ingress rule: the set of the rule's source pods,
\* no set (every source), the set of the rule's blocks
IngressCases(cache, policy, ruleNo) ==
    LET rule == policy.ingress[ruleNo + 1]
    IN (IF PeerPodsIn(cache, policy, rule) # {}
        THEN {policyIndexedSourcePodIpSetName(policy.namespace, policy.name, ruleNo)}
        ELSE {})
       \cup (IF rule.peers = <<>> THEN {NoSet} ELSE {})
       \cup (IF \E n \in DOMAIN rule.peers :
                   /\ rule.peers[n].ipBlock # Nil
                   /\ rule.peers[n].podSelector = Nil
                   /\ rule.peers[n].namespaceSelector = Nil
             THEN {policyIndexedSourceIpBlockIpSetName(policy.namespace, policy.name, ruleNo)}
             ELSE {})

\* the positions in a chain of the ACCEPT rules with a given source set (or
\* destination set) whose other set is one of the given named-port sets
NamedPortRulesAt(rules, srcSets, dstSets) ==
    {n \in DOMAIN rules : /\ rules[n].j = ACCEPT
                          /\ rules[n].srcSet \in srcSets
                          /\ rules[n].dstSet \in dstSets}

\* the rules at the given positions are one per numeric port to which the
\* named ports resolve among the pods, each with the port, the protocol and
\* a set of exactly the addresses that expose the name on that port
OnePerResolvedPort(rules, sets, at, pods, ports) ==
    /\ \A port \in ports : \A n \in ResolvedPorts(pods, port) :
          Cardinality({k \in at : /\ rules[k].dport = ToString(n)
                                  /\ rules[k].proto = port.protocol}) = 1
    /\ \A k \in at :
          \E port \in ports : \E n \in ResolvedPorts(pods, port) :
              /\ rules[k].dport = ToString(n)
              /\ rules[k].proto = port.protocol
              /\ rules[k].dstSet \in DOMAIN sets
              /\ sets[rules[k].dstSet].entries = IpEntries(ExposingAt(pods, port, n))

NamedPortsMaterialized(r, policy) ==
    LET rules == r.chains[networkPolicyChainName(policy.namespace, policy.name, r.version)]
    IN /\ IngressKind(policy) =>
            \A ruleNo \in 0 .. Len(policy.ingress) - 1 :
                LET rule == policy.ingress[ruleNo + 1]
                    named == {policyIndexedIngressNamedPortIpSetName(
                                  policy.namespace, policy.name, ruleNo, j) :
                                  j \in NamedPortNos(rule)}
                IN \A case \in IngressCases(r.pods, policy, ruleNo) :
                      OnePerResolvedPort(rules, r.ipsets,
                                         NamedPortRulesAt(rules, {case}, named),
                                         TargetsOf(r.pods, policy),
                                         {rule.ports[n] : n \in NamedEntries(rule)})
       /\ EgressKind(policy) =>
            \A ruleNo \in 0 .. Len(policy.egress) - 1 :
                LET rule == policy.egress[ruleNo + 1]
                    named == {policyIndexedEgressNamedPortIpSetName(
                                  policy.namespace, policy.name, ruleNo, j) :
                                  j \in NamedPortNos(rule)}
                    src == policySourcePodIpSetName(policy.namespace, policy.name)
                IN OnePerResolvedPort(rules, r.ipsets,
                                      NamedPortRulesAt(rules, {src}, named),
                                      PeerPodsIn(r.pods, policy, rule),
                                      {rule.ports[n] : n \in NamedEntries(rule)})

\* C26: after a clean reconcile, for each named port of an ingress or egress
\* rule that resolves to k distinct numeric ports among the relevant pods
\* (the targets of the policy for ingress, the peer pods of the rule for
\* egress), the chain of the policy holds exactly k ACCEPT rules for it per
\* source or destination case of the rule, each matching the protocol and
\* one of the numeric ports, with a set of its own that holds exactly the
\* addresses of the pods exposing the name on that port.
C26_OneAcceptPerResolvedNamedPort ==
    \A i \in CleanReturns : \A policy \in done[i].nps :
        NamedPortsMaterialized(done[i], policy)

\* a clean reconcile of a policy whose named port resolves to two numeric
\* ports among two target pods, with the two rules in its chain
C26_NamedPortOnTwoPorts ==
    \E i \in CleanReturns :
        /\ PolicyNamedFromPods \in done[i].nps
        /\ Cardinality(ResolvedPorts(TargetsOf(done[i].pods, PolicyNamedFromPods),
                                     PolicyPort("TCP", NamedPort("http")))) = 2
        /\ Cardinality({n \in DOMAIN done[i].chains[networkPolicyChainName(
                                         "ns1", "named", done[i].version)] :
                           done[i].chains[networkPolicyChainName(
                               "ns1", "named", done[i].version)][n].dport
                               \in {"8080", "8081"}}) = 2

\* the entries of one block: the block, or the two halves of the address
\* space when it is one of the blocks taken for the whole of it
BlockEntries(cidr, flags, whole) ==
    IF cidr \in whole
    THEN << <<"0.0.0.0/1", OptionTimeout, "0">> \o flags,
            <<"128.0.0.0/1", OptionTimeout, "0">> \o flags >>
    ELSE << <<cidr, OptionTimeout, "0">> \o flags >>

\* the entries of a peer: those of its block, then those of each except
\* block flagged nomatch; none when the peer has a selector
CidrEntries(peer, whole) ==
    IF peer.ipBlock = Nil \/ peer.podSelector # Nil \/ peer.namespaceSelector # Nil
    THEN <<>>
    ELSE BlockEntries(peer.ipBlock[1].cidr, <<>>, whole)
         \o Flatten([k \in DOMAIN peer.ipBlock[1].except |->
                        BlockEntries(peer.ipBlock[1].except[k], <<OptionNoMatch>>, whole)])

CidrEntriesOfRule(rule, whole) ==
    Flatten([n \in DOMAIN rule.peers |-> CidrEntries(rule.peers[n], whole)])

\* the block sets of the rules of a policy hold the entries of the peers
BlockSetsHold(r, policy, whole) ==
    /\ IngressKind(policy) =>
          \A n \in DOMAIN policy.ingress :
              LET set == policyIndexedSourceIpBlockIpSetName(policy.namespace,
                                                             policy.name, n - 1)
                  entries == CidrEntriesOfRule(policy.ingress[n], whole)
              IN IF entries = <<>> THEN set \notin DOMAIN r.ipsets
                 ELSE set \in DOMAIN r.ipsets /\ r.ipsets[set].entries = Range(entries)
    /\ EgressKind(policy) =>
          \A n \in DOMAIN policy.egress :
              LET set == policyIndexedDestinationIpBlockIpSetName(policy.namespace,
                                                                  policy.name, n - 1)
                  entries == CidrEntriesOfRule(policy.egress[n], whole)
              IN IF entries = <<>> THEN set \notin DOMAIN r.ipsets
                 ELSE set \in DOMAIN r.ipsets /\ r.ipsets[set].entries = Range(entries)

BlockEntriesOfPeers(whole) ==
    \A i \in DOMAIN done : \A policy \in done[i].nps :
        /\ \A rule \in Range(policy.ingress) \cup Range(policy.egress) :
              \A n \in DOMAIN rule.peers :
                  evalIPBlockPeer(rule.peers[n]) = CidrEntries(rule.peers[n], whole)
        /\ done[i].clean => BlockSetsHold(done[i], policy, whole)

\* C27: a peer that carries only a block yields the block itself (the two
\* halves 0.0.0.0/1 and 128.0.0.0/1 for 0.0.0.0/0) followed by one nomatch
\* entry per except block (the two halves flagged nomatch for an except of
\* 0.0.0.0/0), a peer with a pod or namespace selector yields no entry, and
\* after a clean reconcile the block set of each rule holds exactly the
\* entries of its peers.
C27_BlockEntriesOfPeers == BlockEntriesOfPeers({"0.0.0.0/0"})

\* C27 with the two halves for every block whose text ends in /0
C27_BlockEntriesOfPeersBySuffix == BlockEntriesOfPeers(EndsInSlash0)

\* a clean reconcile of the policy with the block 0.0.0.0/0 but 10.0.0.0/8,
\* the block 172.16.0.0/12 but 0.0.0.0/0 and 172.16.1.0/24, and the block
\* 10.0.0.0/0
C27_BlocksReconciled ==
    \E i \in CleanReturns :
        /\ PolicyBlocks \in done[i].nps
        /\ done[i].ipsets[policyIndexedSourceIpBlockIpSetName("ns1", "blocks", 0)].entries
              = {<<"0.0.0.0/1", OptionTimeout, "0">>, <<"128.0.0.0/1", OptionTimeout, "0">>,
                 <<"10.0.0.0/8", OptionTimeout, "0", OptionNoMatch>>}
        /\ <<"128.0.0.0/1", OptionTimeout, "0", OptionNoMatch>>
              \in done[i].ipsets[policyIndexedSourceIpBlockIpSetName("ns1", "blocks", 1)].entries
        /\ policyIndexedSourceIpBlockIpSetName("ns1", "blocks", 2) \in DOMAIN done[i].ipsets

\* the ACCEPT rules of a chain that come from the rule of a policy with the
\* given number: those on a set of that rule (an ingress rule with no peer
\* has no set for its sources, an egress rule with no peer none for its
\* destinations)
AcceptsOfIngressRule(rules, policy, ruleNo) ==
    {n \in DOMAIN rules :
        /\ rules[n].j = ACCEPT
        /\ rules[n].srcSet \in
              {policyIndexedSourcePodIpSetName(policy.namespace, policy.name, ruleNo),
               policyIndexedSourceIpBlockIpSetName(policy.namespace, policy.name, ruleNo)}
              \cup (IF policy.ingress[ruleNo + 1].peers = <<>> THEN {NoSet} ELSE {})}

AcceptsOfEgressRule(rules, policy, ruleNo) ==
    {n \in DOMAIN rules :
        /\ rules[n].j = ACCEPT
        /\ rules[n].srcSet = policySourcePodIpSetName(policy.namespace, policy.name)
        /\ rules[n].dstSet \in
              {policyIndexedDestinationPodIpSetName(policy.namespace, policy.name, ruleNo),
               policyIndexedDestinationIpBlockIpSetName(policy.namespace, policy.name,
                                                        ruleNo)}
              \cup {policyIndexedEgressNamedPortIpSetName(policy.namespace, policy.name,
                                                          ruleNo, j) :
                       j \in NamedPortNos(policy.egress[ruleNo + 1])}
              \cup (IF policy.egress[ruleNo + 1].peers = <<>> THEN {NoSet} ELSE {})}

\* the rules of a policy with a list of ports that stand alone among the
\* rules with no peer (so that a rule on no set is theirs)
PortedIngressRules(policy) ==
    {ruleNo \in 0 .. Len(policy.ingress) - 1 :
        /\ policy.ingress[ruleNo + 1].ports # <<>>
        /\ \A other \in 0 .. Len(policy.ingress) - 1 :
              (other # ruleNo /\ policy.ingress[ruleNo + 1].peers = <<>>)
              => policy.ingress[other + 1].peers # <<>>}

PortedEgressRules(policy) ==
    {ruleNo \in 0 .. Len(policy.egress) - 1 :
        /\ policy.egress[ruleNo + 1].ports # <<>>
        /\ \A other \in 0 .. Len(policy.egress) - 1 :
              (other # ruleNo /\ policy.egress[ruleNo + 1].peers = <<>>)
              => policy.egress[other + 1].peers # <<>>}

\* C28: after a clean reconcile, every ACCEPT rule that comes from an
\* ingress or egress rule with a non-empty list of ports matches a protocol:
\* such a rule yields no ACCEPT without a protocol and port restriction,
\* also when all its ports are named ports that no container exposes.
C28_PortedRuleNeverAcceptsAllPorts ==
    \A i \in CleanReturns : \A policy \in done[i].nps :
        LET rules == done[i].chains[networkPolicyChainName(policy.namespace, policy.name,
                                                           done[i].version)]
        IN /\ IngressKind(policy) =>
                \A ruleNo \in PortedIngressRules(policy) :
                    \A n \in AcceptsOfIngressRule(rules, policy, ruleNo) : rules[n].proto # ""
           /\ EgressKind(policy) =>
                \A ruleNo \in PortedEgressRules(policy) :
                    \A n \in AcceptsOfEgressRule(rules, policy, ruleNo) : rules[n].proto # ""

\* the same for the rules of which some port is numeric or resolves
HasResolvedPort(pods, rule) ==
    \E n \in DOMAIN rule.ports :
        n \in NamedEntries(rule) => ResolvedPorts(pods, rule.ports[n]) # {}

PortedRuleWithResolvedPortNeverAcceptsAllPorts ==
    \A i \in CleanReturns : \A policy \in done[i].nps :
        LET rules == done[i].chains[networkPolicyChainName(policy.namespace, policy.name,
                                                           done[i].version)]
        IN /\ IngressKind(policy) =>
                \A ruleNo \in PortedIngressRules(policy) :
                    HasResolvedPort(TargetsOf(done[i].pods, policy),
                                    policy.ingress[ruleNo + 1])
                    => \A n \in AcceptsOfIngressRule(rules, policy, ruleNo) :
                          rules[n].proto # ""
           /\ EgressKind(policy) =>
                \A ruleNo \in PortedEgressRules(policy) :
                    HasResolvedPort(PeerPodsIn(done[i].pods, policy, policy.egress[ruleNo + 1]),
                                    policy.egress[ruleNo + 1])
                    => \A n \in AcceptsOfEgressRule(rules, policy, ruleNo) :
                          rules[n].proto # ""

\* a model (the caches a reconcile read) allows a packet
ModelAllows(cache, policies, pk) ==
    IngressPermitted(cache, policies, pk) /\ EgressPermitted(cache, policies, pk)

\* the kernel passes only what one of two models allows
PassesOnlyWhatEitherAllows(last, cache, policies) ==
    \A pk \in PacketSpace :
        Forwarded(chains, ipsets, pk)
        => \/ ModelAllows(last.pods, last.nps, pk)
           \/ ModelAllows(cache, policies, pk)

\* C29: while a reconcile that follows a clean one is between two of its
\* parts, and in the state that a reconcile which aborted after a clean one
\* has left, every new packet that the filter table forwards is allowed by
\* the model of the clean reconcile or by the model being applied: the sets
\* without a version, refreshed in place, do not make the chains of the
\* previous version that are still hooked pass anything else.
C29_OnlyEitherModelPassesWhileApplying ==
    /\ \A t \in Threads :
          (pc[t] \in InSync /\ done # <<>> /\ done[Len(done)].clean)
          => PassesOnlyWhatEitherAllows(done[Len(done)], frame[t].pods, frame[t].nps)
    /\ (Len(done) = 2 /\ done[1].clean /\ ~done[2].ok /\ \A t \in Threads : pc[t] \notin InSync)
          => PassesOnlyWhatEitherAllows(done[1], done[2].pods, done[2].nps)

\* the same while the policies are those of the clean reconcile
OnlyEitherModelPassesWhileApplyingSamePolicies ==
    /\ \A t \in Threads :
          (pc[t] \in InSync /\ done # <<>> /\ done[Len(done)].clean
           /\ frame[t].nps = done[Len(done)].nps)
          => PassesOnlyWhatEitherAllows(done[Len(done)], frame[t].pods, frame[t].nps)
    /\ (Len(done) = 2 /\ done[1].clean /\ ~done[2].ok /\ done[2].nps = done[1].nps
        /\ \A t \in Threads : pc[t] \notin InSync)
          => PassesOnlyWhatEitherAllows(done[1], done[2].pods, done[2].nps)

\* after a clean reconcile the kernel passes only what its model allows
OnlyPermittedPassesAfterCleanReconcile ==
    \A i \in CleanReturns : \A pk \in PacketSpace :
        Forwarded(done[i].chains, done[i].ipsets, pk)
        => ModelAllows(done[i].pods, done[i].nps, pk)

\* the pods of this node with an address that a policy of the ingress kind
\* selects
LocalIngressTargets(cache, policies) ==
    {pod \in PodsOf(cache) :
        /\ pod.podIP # "" /\ pod.hostIP = NodeIP
        /\ \E policy \in policies : IngressKind(policy) /\ Selects(policy, pod)}

\* FORWARD of a filter table jumps, for the traffic to an address, to a pod
\* chain that ends with REJECT
EnforcedIn(table, ip) ==
    \E n \in DOMAIN table[FORWARD] :
        LET rule == table[FORWARD][n]
        IN /\ rule.d = ip
           /\ HasPrefix(rule.j, kubePodFirewallChainPrefix)
           /\ rule.j \in DOMAIN table
           /\ table[rule.j] # <<>>
           /\ table[rule.j][Len(table[rule.j])].j = REJECT

LastCleanReturn == CHOOSE i \in CleanReturns : \A k \in CleanReturns : k <= i

\* the pods that were ingress targets at the last clean reconcile and
\* still are
StillIngressTargets ==
    LocalIngressTargets(done[LastCleanReturn].pods, done[LastCleanReturn].nps)
    \cap LocalIngressTargets(podCache, npCache)

\* C30: from the end of a clean reconcile on, whatever later reconciles do
\* and wherever they abort, every pod of the node that was an ingress target
\* at that reconcile and still is one has a rule in FORWARD that jumps to a
\* pod chain whose last rule is REJECT.
C30_EnforcementNeverUnhooked ==
    CleanReturns # {} => \A pod \in StillIngressTargets : EnforcedIn(chains, pod.podIP)

\* no reconcile since the last clean one had a lookup of pods fail
NoPodLookupFailed ==
    /\ \A i \in DOMAIN done : "ListPods" \notin done[i].failed
    /\ \A t \in Threads : "ListPods" \notin frame[t].failed

\* the same when no lookup of the pods of a policy failed
EnforcementNeverUnhookedUnlessPodLookupFailed ==
    (CleanReturns # {} /\ NoPodLookupFailed)
    => \A pod \in StillIngressTargets : EnforcedIn(chains, pod.podIP)

(***************************************************************************)
(* cleanupStaleRules beside another writer of the filter table.  The first *)
(* loop (994-1015) lists a primary chain and then deletes by position; it  *)
(* runs here one driver call at a time, and another process on the node    *)
(* (docker, kube-proxy, an administrator) inserts or deletes rules of its  *)
(* own in FORWARD, OUTPUT and INPUT between the calls.                     *)
(***************************************************************************)
PrimaryChains == <<FORWARD, OUTPUT, INPUT>>

\* a rule that the other process inserts
ForeignInserted ==
    RuleSpec("kube-proxy forwarding", FALSE, "", "", "10.96.0.0/12", "", NoSet, NoSet,
             "", "", ACCEPT)

\* a rule that names no chain of the controller
IsForeign(rule) ==
    /\ ~RuleContainsPrefix(rule, kubePodFirewallChainPrefix)
    /\ ~RuleContainsPrefix(rule, kubeNetworkPolicyChainPrefix)

\* the other process: iptables -I chain 1 of its own rule, or iptables -D of
\* a rule that is not the controller's
ForeignWrite ==
    /\ ~crashed
    /\ changes < budget.changes
    /\ changes' = changes + 1
    /\ \E chain \in BuiltinChains :
          \/ chains' = [chains EXCEPT ![chain] = <<ForeignInserted>> \o @]
          \/ \E pos \in DOMAIN chains[chain] :
                /\ IsForeign(chains[chain][pos])
                /\ chains' = [chains EXCEPT ![chain] = RemoveAt(@, pos)]
    /\ UNCHANGED <<podCache, npCache, ipsets, mu, pc, frame, networkPoliciesInfo,
                   readyForUpdates, epoch, heartbeats, crashed, faults, budget, done,
                   unseen, stopCh, cleaned, v1NetworkPolicy>>

\* cleanupStaleRules up to its first loop: ipset.Save, ListChains and the
\* three lists of stale names
GcBegin(t) ==
    /\ ~crashed
    /\ pc[t] = "cleanup"
    /\ \E f \in FaultChoices :
          LET saved == Exec(Machine(chains, ipsets, f), SaveSets)
              listed == Exec(saved, ListChains)
              chainNames == IF listed.hit /\ ~saved.hit THEN {} ELSE DOMAIN listed.chains
              cleanupPodFwChains ==
                  SetToSeq(stalePodFwChains(chainNames, frame[t].activePodFwChains))
          IN /\ f = 0 \/ listed.hit
             /\ Advance(t, listed, "gc",
                        [frame[t] EXCEPT !.gc =
                            [NoGc EXCEPT
                                !.cleanupPodFwChains = cleanupPodFwChains,
                                !.cleanupPolicyChains =
                                    SetToSeq(stalePolicyChains(chainNames,
                                                               frame[t].activePolicyChains)),
                                !.cleanupPolicyIPSets =
                                    SetToSeq(stalePolicyIPSets(DOMAIN saved.ipsets,
                                                               frame[t].activePolicyIpSets)),
                                !.podFwChains = cleanupPodFwChains,
                                !.primaryChains = PrimaryChains]])

\* iptablesCmdHandler.List of the next primary chain for the stale pod
\* chain at hand (998)
GcList(t) ==
    /\ ~crashed
    /\ pc[t] = "gc"
    /\ frame[t].gc.podFwChains # <<>>
    /\ frame[t].gc.i = 0
    /\ \E f \in FaultChoices :
          LET chain == Head(frame[t].gc.primaryChains)
              m == Exec(Machine(chains, ipsets, f), ListRules(chain, "abort"))
          IN /\ f = 0 \/ m.hit
             /\ Advance(t, m, "gc",
                        [frame[t] EXCEPT !.gc.rules = chains[chain],
                                         !.gc.i = 1,
                                         !.gc.realRuleNo = 0])

\* the range over the listing (1005-1014) up to its next Delete; at the end
\* of the listing the loops go on to the next primary chain, after the last
\* one to the next stale pod chain
GcStep(t) ==
    /\ ~crashed
    /\ pc[t] = "gc"
    /\ frame[t].gc.i > 0
    /\ LET gc == frame[t].gc
           found == {k \in gc.i .. Len(gc.rules) :
                        RuleContains(gc.rules[k], Head(gc.podFwChains))}
       IN IF found = {}
          THEN Advance(t, Machine(chains, ipsets, 0), "gc",
                       [frame[t] EXCEPT
                           !.gc.rules = <<>>,
                           !.gc.i = 0,
                           !.gc.realRuleNo = 0,
                           !.gc.primaryChains = IF Len(@) = 1 THEN PrimaryChains ELSE Tail(@),
                           !.gc.podFwChains = IF Len(gc.primaryChains) = 1
                                              THEN Tail(@) ELSE @])
          ELSE \E f \in FaultChoices :
                  LET k == CHOOSE k \in found : \A other \in found : k <= other
                      m == Exec(Machine(chains, ipsets, f),
                                DeleteRule(Head(gc.primaryChains), k - gc.realRuleNo))
                  IN /\ f = 0 \/ m.hit
                     /\ Advance(t, m, "gc",
                                [frame[t] EXCEPT !.gc.i = k + 1,
                                                 !.gc.realRuleNo = @ + 1])

\* cleanupStaleRules after its first loop, and the return of Sync
GcFinish(t) ==
    /\ ~crashed
    /\ pc[t] = "gc"
    /\ frame[t].gc.podFwChains = <<>>
    /\ \E f \in FaultChoices :
          LET gc == frame[t].gc
              m == cleanupStaleRulesFrom(Machine(chains, ipsets, f), gc.cleanupPodFwChains,
                                         gc.cleanupPolicyChains, frame[t].activePodFwChains,
                                         gc.cleanupPolicyIPSets)
          IN /\ f = 0 \/ m.hit
             /\ Advance(t, m, "ret", frame[t])

InitForeign == InitState([epochs |-> MaxEpoch, faults |-> 0, changes |-> MaxChanges + 1], TRUE)

NextForeign ==
    \/ SyncBegin("run")
    \/ SyncPolicyChains("run")
    \/ SyncPodFwIngress("run")
    \/ SyncPodFwEgress("run")
    \/ GcBegin("run")
    \/ GcList("run")
    \/ GcStep("run")
    \/ GcFinish("run")
    \/ ForeignWrite
    \/ AfterSync
    \/ Tick
    \/ LoopTop

SpecForeign == InitForeign /\ [][NextForeign]_vars

\* the rules of a primary chain that name none of the stale pod chains, in
\* their order
RECURSIVE KeptRules(_, _)
KeptRules(rules, staleChains) ==
    IF rules = <<>> THEN <<>>
    ELSE IF \E chain \in staleChains : RuleContains(Head(rules), chain)
    THEN KeptRules(Tail(rules), staleChains)
    ELSE <<Head(rules)>> \o KeptRules(Tail(rules), staleChains)

\* C31: beside another writer of the filter table, every step of the first
\* loop of cleanupStaleRules deletes from FORWARD, OUTPUT and INPUT only
\* rules that name a stale pod chain: the rules that name none are after
\* the step what they were before it
C31_GcDeletesOnlyStaleReferences ==
    [][(pc["run"] = "gc" /\ pc'["run"] = "gc" /\ changes' = changes)
         => \A chain \in BuiltinChains :
               KeptRules(chains'[chain], Range(frame["run"].gc.cleanupPodFwChains))
                   = KeptRules(chains[chain], Range(frame["run"].gc.cleanupPodFwChains))]_vars

\* the same with the agent as the only writer of the table during the
\* reconcile
GcDeletesOnlyStaleReferencesAlone ==
    [][(pc["run"] = "gc" /\ pc'["run"] = "gc" /\ changes' = changes /\ changes = 0)
         => \A chain \in BuiltinChains :
               KeptRules(chains'[chain], Range(frame["run"].gc.cleanupPodFwChains))
                   = KeptRules(chains[chain], Range(frame["run"].gc.cleanupPodFwChains))]_vars

\* the rules of a chain that name no chain of the controller, in their order
RECURSIVE ForeignRules(_)
ForeignRules(rules) ==
    IF rules = <<>> THEN <<>>
    ELSE IF IsForeign(Head(rules)) THEN <<Head(rules)>> \o ForeignRules(Tail(rules))
    ELSE ForeignRules(Tail(rules))

\* the last sentence of C31 alone: no step of the first loop deletes a rule
\* of another owner
GcNeverDeletesForeignRule ==
    [][(pc["run"] = "gc" /\ pc'["run"] = "gc" /\ changes' = changes)
         => \A chain \in BuiltinChains :
               ForeignRules(chains'[chain]) = ForeignRules(chains[chain])]_vars

\* the returned reconciles whose cleanupStaleRules ran to its end with no
\* call of the driver failing
CleanedReturns == {i \in CleanReturns : done[i].part = "cleanup"}

\* the pod chains that the cleanup of a returned reconcile found stale
StaleAt(i) == stalePodFwChains(DOMAIN done[i].before, done[i].activePodFwChains)

\* the rules of a chain that name one of the chains
ReferencesIn(rules, staleChains) ==
    {k \in DOMAIN rules : \E chain \in staleChains : RuleContains(rules[k], chain)}

\* C32: with the agent as the only writer, every run of cleanupStaleRules
\* in which no call of the driver fails by injection leaves in FORWARD,
\* OUTPUT and INPUT the rules that name no stale pod chain, all of them and
\* in their order, and none that names one
C32_GcRemovesExactlyStaleReferences ==
    [][(pc["run"] = "cleanup" /\ pc'["run"] # "cleanup" /\ faults' = faults)
         => \A chain \in BuiltinChains :
               chains'[chain] =
                   KeptRules(chains[chain],
                             stalePodFwChains(DOMAIN chains,
                                              frame["run"].activePodFwChains))]_vars

\* the same read off the reconciles that returned without any failure
GcRemovedExactlyStaleReferences ==
    \A i \in CleanedReturns : \A chain \in BuiltinChains :
        done[i].chains[chain] = KeptRules(done[i].before[chain], StaleAt(i))

\* a cleanup that found two stale pod chains, several rules for each of
\* them in FORWARD, and left there a rule of another owner and a jump to an
\* active pod chain
C32_SeveralStaleReferencesRemoved ==
    \E i \in CleanedReturns :
        /\ Cardinality(StaleAt(i)) >= 2
        /\ \A chain \in StaleAt(i) :
              Cardinality(ReferencesIn(done[i].before[FORWARD], {chain})) >= 2
        /\ ReferencesIn(done[i].before[OUTPUT], StaleAt(i)) # {}
        /\ ForeignRule \in Range(done[i].chains[FORWARD])
        /\ ReferencesIn(done[i].chains[FORWARD], done[i].activePodFwChains) # {}
        /\ ReferencesIn(done[i].chains[FORWARD], StaleAt(i)) = {}

\* C33: a run of cleanupStaleRules in which no call of the driver fails by
\* injection returns nil: the kernel refuses DeleteChain of a chain that a
\* rule jumps to and Destroy of a set that a rule matches, so every chain
\* was deleted after the rules that jump to it and every set after the
\* chains whose rules match it
C33_GcDeletesReferencesFirst ==
    [][\A t \in Threads :
          (pc[t] = "cleanup" /\ pc'[t] # "cleanup" /\ faults' = faults)
             => /\ ~crashed'
                /\ done'[Len(done')].ok
                /\ done'[Len(done')].failed \cap {"Delete", "DeleteChain", "Destroy"} = {}]_vars

\* a cleanup that deleted a stale pod chain that FORWARD jumped to, a stale
\* policy chain that this pod chain jumped to, and destroyed a set that a
\* rule of a stale policy chain matched
C33_ReferencedChainsAndSetsDeleted ==
    \E i \in CleanedReturns :
        /\ \E podFwChain \in StaleAt(i) : \E policyChain \in DOMAIN done[i].before :
              /\ ReferencesIn(done[i].before[FORWARD], {podFwChain}) # {}
              /\ HasPrefix(policyChain, kubeNetworkPolicyChainPrefix)
              /\ ReferencesIn(done[i].before[podFwChain], {policyChain}) # {}
              /\ {podFwChain, policyChain} \cap DOMAIN done[i].chains = {}
        /\ \E chain \in DOMAIN done[i].before : \E k \in DOMAIN done[i].before[chain] :
              \E set \in {done[i].before[chain][k].srcSet, done[i].before[chain][k].dstSet} :
                 /\ set # NoSet
                 /\ set \notin DOMAIN done[i].ipsets
                 /\ chain \notin DOMAIN done[i].chains

(***************************************************************************)
(* Rules whose peers may resolve to nothing: the selected pods have no     *)
(* address yet, no namespace matches, or the lookup of a peer fails.       *)
(***************************************************************************)
PeerOfDb == PolicyPeer(Some({"db"}), Nil, Nil)
PeerOfWeb == PolicyPeer(Some({"web"}), Nil, Nil)
PeerOfNoNamespace == PolicyPeer(Nil, Some({"dev"}), Nil)

PolicyFromDb ==
    NetworkPolicy("ns1", "fromdb", {"web"}, {"Ingress"},
                  <<PolicyRule(<<PeerOfDb>>, <<PolicyPort("TCP", IntPort("80"))>>)>>, <<>>)

PolicyFromDbAnyPort ==
    NetworkPolicy("ns1", "fromdbany", {"web"}, {"Ingress"},
                  <<PolicyRule(<<PeerOfDb>>, <<>>)>>, <<>>)

PolicyFromDbNamed ==
    NetworkPolicy("ns1", "fromdbnamed", {"web"}, {"Ingress"},
                  <<PolicyRule(<<PeerOfDb>>, <<PolicyPort("TCP", NamedPort("http"))>>)>>, <<>>)

PolicyFromNoNamespace ==
    NetworkPolicy("ns1", "fromnone", {"web"}, {"Ingress"},
                  <<PolicyRule(<<PeerOfNoNamespace>>, <<PolicyPort("TCP", IntPort("80"))>>),
                    PolicyRule(<<PeerOfNoNamespace, PeerOfWeb>>, <<>>)>>, <<>>)

PolicyToDb ==
    NetworkPolicy("ns1", "todb", {"web"}, {"Egress"}, <<>>,
                  <<PolicyRule(<<PeerOfDb>>, <<PolicyPort("TCP", IntPort("80"))>>)>>)

PolicyToDbAnyPort ==
    NetworkPolicy("ns1", "todbany", {"web"}, {"Egress"}, <<>>,
                  <<PolicyRule(<<PeerOfDb>>, <<>>)>>)

PolicyToDbNamed ==
    NetworkPolicy("ns1", "todbnamed", {"web"}, {"Egress"}, <<>>,
                  <<PolicyRule(<<PeerOfDb>>, <<PolicyPort("TCP", NamedPort("http"))>>),
                    PolicyRule(<<PeerOfNoNamespace, PeerOfWeb>>, <<>>)>>)

PeerCatalogue ==
    {PolicyFromDb, PolicyFromDbAnyPort, PolicyFromDbNamed, PolicyFromNoNamespace,
     PolicyToDb, PolicyToDbAnyPort, PolicyToDbNamed}

InitPeers ==
    /\ podCache \in {c \in [PodIds -> PodStatus] :
                        /\ c["a"] = "local"
                        /\ c["b"] \in {"local", "pending", "absent"}
                        /\ c["c"] = "local"}
    /\ npCache \in {{policy} : policy \in PeerCatalogue}
    /\ InitController([epochs |-> MaxEpoch, faults |-> MaxFaults, changes |-> 0, peers |-> 1],
                      TRUE)

SpecPeers == InitPeers /\ [][NextRecovery]_vars

\* the reconciles that returned nil with no call of the driver and no lookup
\* of target pods failing
BuiltReturns ==
    {i \in DOMAIN done : /\ done[i].ok
                         /\ done[i].part = "cleanup"
                         /\ done[i].failed \subseteq {"evalPodPeer"}}

\* the entry of a policy in the model that a reconcile built
InfoOf(i, policy) ==
    CHOOSE built \in Range(done[i].info) :
        built.name = policy.name /\ built.namespace = policy.namespace

PolicyChainAt(i, policy) ==
    done[i].chains[networkPolicyChainName(policy.namespace, policy.name, done[i].version)]

\* the ACCEPT rules that can come from ingress rule ruleNo of a policy: on
\* one of its source sets, or on no source set
IngressAcceptsAt(i, policy, ruleNo) ==
    {n \in DOMAIN PolicyChainAt(i, policy) :
        /\ PolicyChainAt(i, policy)[n].j = ACCEPT
        /\ PolicyChainAt(i, policy)[n].srcSet \in
              {NoSet,
               policyIndexedSourcePodIpSetName(policy.namespace, policy.name, ruleNo),
               policyIndexedSourceIpBlockIpSetName(policy.namespace, policy.name, ruleNo)}}

\* the same for egress rule ruleNo: on one of its destination sets, or none
EgressAcceptsAt(i, policy, ruleNo) ==
    {n \in DOMAIN PolicyChainAt(i, policy) :
        /\ PolicyChainAt(i, policy)[n].j = ACCEPT
        /\ PolicyChainAt(i, policy)[n].dstSet \in
              {NoSet,
               policyIndexedDestinationPodIpSetName(policy.namespace, policy.name, ruleNo),
               policyIndexedDestinationIpBlockIpSetName(policy.namespace, policy.name,
                                                        ruleNo)}
              \cup {policyIndexedEgressNamedPortIpSetName(policy.namespace, policy.name,
                                                          ruleNo, j) :
                       j \in NamedPortNos(policy.egress[ruleNo + 1])}}

UnresolvedIngress(i, policy, ruleNo) ==
    /\ policy.ingress[ruleNo + 1].peers # <<>>
    /\ InfoOf(i, policy).ingressRules[ruleNo + 1].srcPods = {}
    /\ InfoOf(i, policy).ingressRules[ruleNo + 1].srcIPBlocks = <<>>

UnresolvedEgress(i, policy, ruleNo) ==
    /\ policy.egress[ruleNo + 1].peers # <<>>
    /\ InfoOf(i, policy).egressRules[ruleNo + 1].dstPods = {}
    /\ InfoOf(i, policy).egressRules[ruleNo + 1].dstIPBlocks = <<>>

\* C34: a rule with peers that resolve to no pod with an address and to no
\* block (the pods have no address, nothing is selected, or the lookup
\* failed and the peer was skipped) has no ACCEPT rule in the chain of its
\* policy, for ingress and for egress
C34_UnresolvedPeersAcceptNothing ==
    \A i \in BuiltReturns : \A policy \in done[i].nps :
        /\ \A ruleNo \in 0 .. Len(policy.ingress) - 1 :
              UnresolvedIngress(i, policy, ruleNo) => IngressAcceptsAt(i, policy, ruleNo) = {}
        /\ \A ruleNo \in 0 .. Len(policy.egress) - 1 :
              UnresolvedEgress(i, policy, ruleNo) => EgressAcceptsAt(i, policy, ruleNo) = {}

\* two reconciles of a policy with a target on the node: in the first the
\* peers of its rule resolved and the rule has its ACCEPT, in the second
\* the lookup of the peer failed and the rule has none
C34_PeerSkippedAfterFailedLookup ==
    /\ Len(done) = 2
    /\ {1, 2} \subseteq BuiltReturns
    /\ done[1].failed = {}
    /\ done[2].failed = {"evalPodPeer"}
    /\ \E policy \in done[2].nps :
          /\ InfoOf(2, policy).targetPods # <<>>
          /\ \/ /\ policy.ingress # <<>>
                /\ ~UnresolvedIngress(1, policy, 0)
                /\ IngressAcceptsAt(1, policy, 0) # {}
                /\ UnresolvedIngress(2, policy, 0)
             \/ /\ policy.egress # <<>>
                /\ ~UnresolvedEgress(1, policy, 0)
                /\ EgressAcceptsAt(1, policy, 0) # {}
                /\ UnresolvedEgress(2, policy, 0)

\* the addresses a set of a returned reconcile holds
AddressesAt(i, set) ==
    IF set \in DOMAIN done[i].ipsets THEN {entry[1] : entry \in done[i].ipsets[set].entries}
    ELSE {}

\* the destination sets of the ingress rules of a policy: the set of its
\* target pods and the sets of the named ports of its rules
IngressDstSets(policy) ==
    {policyDestinationPodIpSetName(policy.namespace, policy.name)}
        \cup {policyIndexedIngressNamedPortIpSetName(policy.namespace, policy.name,
                                                     ruleNo, j) :
                 ruleNo \in 0 .. Len(policy.ingress) - 1,
                 j \in 0 .. Cardinality(AllContainerPorts) * Cardinality(AllContainerPorts)}

\* an ACCEPT rule of the chain of a policy is scoped to the targets of the
\* policy: it is on one of the destination sets of the ingress rules, or on
\* the set of the target pods as source, and that set holds addresses of
\* target pods only
ScopedToTargets(i, policy, rule) ==
    LET targets == {pod.podIP : pod \in TargetsOf(done[i].pods, policy)}
    IN \/ /\ rule.dstSet \in IngressDstSets(policy)
          /\ AddressesAt(i, rule.dstSet) \subseteq targets
       \/ /\ rule.srcSet = policySourcePodIpSetName(policy.namespace, policy.name)
          /\ AddressesAt(i, rule.srcSet) \subseteq targets

AcceptsScopedToTargets(returns) ==
    \A i \in returns : \A policy \in done[i].nps :
        networkPolicyChainName(policy.namespace, policy.name, done[i].version)
                \in DOMAIN done[i].chains
            => \A rule \in Range(PolicyChainAt(i, policy)) :
                  rule.j = ACCEPT => ScopedToTargets(i, policy, rule)

NumericEntries(rule) ==
    {n \in DOMAIN rule.ports :
        rule.ports[n].port = Nil \/ rule.ports[n].port[1].type = "int"}

PortText(port) == IF port.port = Nil THEN "" ELSE port.port[1].val

\* the ingress rules of a policy with ports and no peer, when the policy
\* has one such rule only (so that the ACCEPT rules on no source set are
\* its rules)
OpenPortedRules(policy) ==
    {ruleNo \in 0 .. Len(policy.ingress) - 1 :
        /\ policy.ingress[ruleNo + 1].peers = <<>>
        /\ policy.ingress[ruleNo + 1].ports # <<>>
        /\ \A other \in 0 .. Len(policy.ingress) - 1 :
              policy.ingress[other + 1].peers = <<>> => other = ruleNo}

\* the ACCEPT rules of the chain of the policy for such a rule are: for
\* every numeric entry one rule on no source set and the set of the targets
\* with the protocol and the port of the entry; for every numeric port a
\* named entry resolves to among the targets one rule on no source set and
\* a set of its own; and no other
OpenPortedRuleMaterialized(r, policy, ruleNo) ==
    LET rules == r.chains[networkPolicyChainName(policy.namespace, policy.name, r.version)]
        rule == policy.ingress[ruleNo + 1]
        dst == policyDestinationPodIpSetName(policy.namespace, policy.name)
        named == {policyIndexedIngressNamedPortIpSetName(policy.namespace, policy.name,
                                                         ruleNo, j) : j \in NamedPortNos(rule)}
        open == {k \in DOMAIN rules : rules[k].j = ACCEPT /\ rules[k].srcSet = NoSet}
        onTargets == {k \in open : rules[k].dstSet = dst}
        onNamed == {k \in open : rules[k].dstSet # dst}
    IN /\ \A k \in DOMAIN rules : rules[k].j = ACCEPT => k \in open
       /\ \A n \in NumericEntries(rule) :
             Cardinality({k \in onTargets : /\ rules[k].proto = rule.ports[n].protocol
                                            /\ rules[k].dport = PortText(rule.ports[n])}) = 1
       /\ \A k \in onTargets :
             \E n \in NumericEntries(rule) : /\ rules[k].proto = rule.ports[n].protocol
                                             /\ rules[k].dport = PortText(rule.ports[n])
       /\ \A k \in onNamed : rules[k].dstSet \in named
       /\ \A k \in onNamed : \A other \in onNamed :
             rules[k].dstSet = rules[other].dstSet => k = other
       /\ OnePerResolvedPort(rules, r.ipsets, onNamed, TargetsOf(r.pods, policy),
                             {rule.ports[n] : n \in NamedEntries(rule)})

\* C36: after a clean reconcile an ingress rule with ports and no peer has
\* exactly one ACCEPT for every numeric entry (no source set, the set of
\* the targets, the protocol and port of the entry), one for every resolved
\* endpoint of a named port (no source set, the set of the endpoint), and
\* no other rule
C36_OpenPortedRuleMaterialized ==
    \A i \in CleanReturns : \A policy \in done[i].nps :
        (policy.egress = <<>> /\ Len(policy.ingress) = 1)
            => \A ruleNo \in OpenPortedRules(policy) :
                  OpenPortedRuleMaterialized(done[i], policy, ruleNo)

\* a clean reconcile of the policy with two numeric ports, a protocol with
\* no port and a named port that resolves to two numeric ports: five rules
C36_NumericAndNamedPortsAccepted ==
    \E i \in CleanReturns :
        /\ PolicyPortsFromAll \in done[i].nps
        /\ Cardinality(ResolvedPorts(TargetsOf(done[i].pods, PolicyPortsFromAll),
                                     PolicyPortsFromAll.ingress[1].ports[3])) = 2
        /\ Len(done[i].chains[networkPolicyChainName("ns1", "ports", done[i].version)]) = 5

(***************************************************************************)
(* The order of the rules of a pod chain (syncPodFirewallChains).          *)
(***************************************************************************)
IsPolicyJump(rule) == HasPrefix(rule.j, kubeNetworkPolicyChainPrefix)

\* the chain ends with the NFLOG rule and then the REJECT rule, and every
\* ACCEPT and every jump to a policy chain stands before both
EndsWithLogThenReject(rules) ==
    LET n == Len(rules)
    IN /\ n >= 2
       /\ rules[n].j = REJECT
       /\ rules[n - 1].j = NFLOG
       /\ \A k \in DOMAIN rules :
             (rules[k].j = ACCEPT \/ IsPolicyJump(rules[k])) => k < n - 1

\* C37: after a clean reconcile every active pod chain ends with the NFLOG
\* rule followed by the default REJECT rule, and every ACCEPT and every jump
\* to a policy chain precedes both; this holds too for the chain of a pod
\* that both loops (ingress and egress) have processed.
C37_PodChainEndsWithLogThenReject ==
    \A i \in CleanReturns :
        \A chain \in done[i].activePodFwChains :
            /\ chain \in DOMAIN done[i].chains
            /\ EndsWithLogThenReject(done[i].chains[chain])

\* a clean reconcile that processed a pod in both loops: its chain holds the
\* jump of an ingress policy and the jump of an egress policy
C37_PodProcessedByBothLoops ==
    \E i \in CleanReturns :
        \E pod \in LocalPods(done[i].pods) :
            LET chain == podFirewallChainName(pod.namespace, pod.name, done[i].version)
                rules == done[i].chains[chain]
            IN /\ IngressEnabled(done[i].nps, pod) /\ EgressEnabled(done[i].nps, pod)
               /\ chain \in done[i].activePodFwChains
               /\ Cardinality({k \in DOMAIN rules : IsPolicyJump(rules[k])}) >= 2
               /\ Cardinality({k \in DOMAIN rules : rules[k].j = ACCEPT}) >= 2

(***************************************************************************)
(* The kind of the policies of the model in the two modes.                 *)
(***************************************************************************)
PolicyKinds == {"ingress", "egress", "both"}

\* every policy of the model of this return has one of the three kinds
KindsSetAt(i) == \A k \in DOMAIN done[i].info : done[i].info[k].policyType \in PolicyKinds

\* C38: every policy of the model, whichever builder made it (the one for the
\* current schema or the one for the legacy schema), has a kind among
\* ingress, egress and both.
C38_EveryPolicyHasKind == \A i \in DOMAIN done : KindsSetAt(i)

\* the same for the models built from the current schema alone
EveryPolicyHasKindInCurrentMode == v1NetworkPolicy => \A i \in DOMAIN done : KindsSetAt(i)

\* the consequence the claim draws: after a clean reconcile a policy that
\* selects a local pod with an address has its chain, and the pod has its
\* chain
SelectedPodMaterialized ==
    \A i \in CleanReturns :
        \A policy \in done[i].nps :
            \A pod \in LocalPods(done[i].pods) :
                Selects(policy, pod) =>
                    /\ networkPolicyChainName(policy.namespace, policy.name, done[i].version)
                           \in DOMAIN done[i].chains
                    /\ podFirewallChainName(pod.namespace, pod.name, done[i].version)
                           \in DOMAIN done[i].chains

(***************************************************************************)
(* The derivation of chain and set names (podFirewallChainName ..          *)
(* policyIndexedEgressNamedPortIpSetName), with the hash taken as          *)
(* injective: Hash is the identity on the hashed text.                     *)
(***************************************************************************)
MaxRuleNo == 12       \* ingress rules of the policy 'many'
MaxNamedPorts == 6    \* named ports of its second rule

\* two policies whose namespaces and names differ and concatenate alike
PolicyOfA == NetworkPolicy("a", "bc", Everything, {"Ingress"}, <<>>, <<>>)
PolicyOfAb == NetworkPolicy("ab", "c", Everything, {"Ingress"}, <<>>, <<>>)

\* a policy of many rules: the second lists the named port http several
\* times, the last lists it once, the others allow tcp/80
PolicyManyRules ==
    NetworkPolicy("ns1", "many", Everything, {"Ingress"},
                  [k \in 1 .. MaxRuleNo |->
                      IF k = 2
                      THEN PolicyRule(<<>>, [n \in 1 .. MaxNamedPorts |->
                                                PolicyPort("TCP", NamedPort("http"))])
                      ELSE IF k = MaxRuleNo
                      THEN PolicyRule(<<>>, <<PolicyPort("TCP", NamedPort("http"))>>)
                      ELSE PolicyRule(<<>>, <<PolicyPort("TCP", IntPort("80"))>>)],
                  <<>>)

NameCatalogue == {{PolicyOfA, PolicyOfAb}, {PolicyManyRules}, {PolicyDeny, PolicyEgress}}

InitNames ==
    /\ podCache \in {c \in [PodIds -> PodStatus] :
                        /\ c["a"] \in {"local", "pending"}
                        /\ c["b"] \in {"local", "pending", "remote"}
                        /\ c["c"] = "local"}
    /\ npCache \in NameCatalogue
    /\ InitController([epochs |-> MaxEpoch, faults |-> 0, changes |-> 0], TRUE)

SpecNames == InitNames /\ [][NextRecovery]_vars

\* a derived name with the function (role) and the arguments it came from
Derived(role, namespace, name, ruleNo, namedPortNo, derived) ==
    [args |-> <<role, namespace, name, ruleNo, namedPortNo>>, name |-> derived]

\* the chain names and the two target set names of the policies of a model
PolicyDerivations(info, version) ==
    UNION {{Derived("networkPolicyChainName", info[k].namespace, info[k].name, 0, 0,
                    networkPolicyChainName(info[k].namespace, info[k].name, version)),
            Derived("policySourcePodIpSetName", info[k].namespace, info[k].name, 0, 0,
                    policySourcePodIpSetName(info[k].namespace, info[k].name)),
            Derived("policyDestinationPodIpSetName", info[k].namespace, info[k].name, 0, 0,
                    policyDestinationPodIpSetName(info[k].namespace, info[k].name))} :
           k \in DOMAIN info}

\* the indexed set names of the rules of one policy of a model; rule and
\* named-port numbers start at 0
IndexedDerivations(policy) ==
    LET ns == policy.namespace
        name == policy.name
    IN UNION {{Derived("policyIndexedSourcePodIpSetName", ns, name, i - 1, 0,
                       policyIndexedSourcePodIpSetName(ns, name, i - 1)),
               Derived("policyIndexedSourceIpBlockIpSetName", ns, name, i - 1, 0,
                       policyIndexedSourceIpBlockIpSetName(ns, name, i - 1))}
              \cup {Derived("policyIndexedIngressNamedPortIpSetName", ns, name, i - 1, j - 1,
                            policyIndexedIngressNamedPortIpSetName(ns, name, i - 1, j - 1)) :
                    j \in DOMAIN policy.ingressRules[i].namedPorts} :
              i \in DOMAIN policy.ingressRules}
       \cup
       UNION {{Derived("policyIndexedDestinationPodIpSetName", ns, name, i - 1, 0,
                       policyIndexedDestinationPodIpSetName(ns, name, i - 1)),
               Derived("policyIndexedDestinationIpBlockIpSetName", ns, name, i - 1, 0,
                       policyIndexedDestinationIpBlockIpSetName(ns, name, i - 1))}
              \cup {Derived("policyIndexedEgressNamedPortIpSetName", ns, name, i - 1, j - 1,
                            policyIndexedEgressNamedPortIpSetName(ns, name, i - 1, j - 1)) :
                    j \in DOMAIN policy.egressRules[i].namedPorts} :
              i \in DOMAIN policy.egressRules}

Injective(derivations) ==
    \A d1, d2 \in derivations : d1.name = d2.name => d1.args = d2.args

\* the returns of a reconcile that built its model
ModelReturns == {i \in DOMAIN done : done[i].ok}

\* C39: with an injective hash the derivation of names is injective on its
\* arguments: within one version two different (namespace, name) pairs never
\* get the same chain or set name, and two different functions or index
\* tuples never get the same set name of one prefix.
C39_NameDerivationInjective ==
    \A i \in ModelReturns :
        /\ Injective(PolicyDerivations(done[i].info, done[i].version))
        /\ \A k \in DOMAIN done[i].info : Injective(IndexedDerivations(done[i].info[k]))

\* the part of the claim on (namespace, name) pairs alone
PolicyNamesInjective ==
    \A i \in ModelReturns : Injective(PolicyDerivations(done[i].info, done[i].version))

\* the part of the claim on the index tuples of one policy alone
IndexedNamesInjective ==
    \A i \in ModelReturns :
        \A k \in DOMAIN done[i].info : Injective(IndexedDerivations(done[i].info[k]))

\* the derivation is injective over the policies whose names and indices
\* have no common concatenation
NameDerivationInjectiveElsewhere ==
    \A i \in ModelReturns :
        (done[i].nps = {PolicyDeny, PolicyEgress}) =>
            /\ Injective(PolicyDerivations(done[i].info, done[i].version))
            /\ \A k \in DOMAIN done[i].info : Injective(IndexedDerivations(done[i].info[k]))

\* what follows in the tables: after a clean reconcile there is one policy
\* chain for each policy
OneChainForEachPolicy ==
    \A i \in CleanReturns :
        Cardinality(PolicyChainsIn(done[i].chains)) = Cardinality(done[i].nps)
=============================================================================
